---- MODULE Spec2Model ----
(***************************************************************************)
(* automation-traverse: the task graph runner (runner.py) and the task     *)
(* life cycle it drives (task.py), as a state machine.  Every call of the  *)
(* runner is a frame on an explicit call stack; every action is one step   *)
(* of the frame on top of it.                                              *)
(***************************************************************************)
EXTENDS Integers, Sequences, FiniteSets, TLC

\* ------------------------------------------------------------------ bounds
\* nodes of a graph, the root (the base Task) included
MaxNodes == 4
\* parent classes (bases) of one task class
MaxParents == 3
\* largest opts.rerun_failures tried
MaxRerun == 1
\* teardown callbacks one task registers during setup/run
MaxCallbacks == 1
\* nodes of the graphs run with tasks that never raise
WideNodes == 5
\* add_task calls made on one RunnerGraph
MaxAdds == 3
\* values an argument of a task takes: 1..MaxValue
MaxValue == 2
\* nodes of the graphs run with emitters
EmitNodes == 4
\* distinct teardown callbacks of a task
MaxFns == 2
\* callbacks on a task's teardown stack
MaxStack == 3
\* calls the setup and run of a task make on the teardown stack
MaxOps == 3
\* functions in a task's DEBUG_FCNS
MaxDebug == 2
\* emitters attached to a context
MaxEmitters == 2
\* subcontexts open at a time
MaxDepth == 3
\* passes of run() that are counted
MaxPasses == MaxRerun + 3
\* nodes of the linked structures forwards() and reversed() are iterated on
WalkNodes == 3
\* entries of one node's children (or parents) list in these structures
WalkEdges == 2

VARIABLES
    parents,      \* RunnerNode.parents: node -> list of nodes
    children,     \* RunnerNode.children: node -> deque of nodes
    opts,         \* RunOptions: random_order, failfast, rerun_failures
    tasks_raise,  \* whether the tasks' setup, run and teardown code may raise
    node,         \* RunnerNode flags: run_complete, children_complete, complete
    task,         \* node.task: status, error, error_text, teardown_stack
    path,         \* the path set shared by the execute calls of one pass
    stack,        \* call stack, run() at the bottom, running call at the end
    failure_iters,\* run(): reruns left
    success,      \* run(): the value it returns
    stopped,      \* the control exception that ended run(), "none" if none
    ran_pass,     \* nodes that reached run_complete in the current pass
    todo_pass,    \* nodes that were not complete when the current pass began
    doomed,       \* nodes marked by update_status in the current pass
    hist,         \* passes begun, and what the emitters were told
    graph,        \* a RunnerGraph under construction by add_task
    walk,         \* an iteration of forwards() or reversed() in progress
    inst,         \* one Task instance driven through execute_run/teardown
    ctx           \* one TraverseContext with its emitters and subcontexts

\* what a run is given: the graph, the options and the tasks' code
inputs == <<parents, children, opts, tasks_raise, graph, walk, inst, ctx>>

vars == <<inputs, node, task, path, stack, failure_iters, success, stopped,
          ran_pass, todo_pass, doomed, hist>>

\* ------------------------------------------------------------- task status
UNSET == "unset"
RUN_SKIP == "SKIP"
RUN_SUCCESS == "SUCCESS"
RUN_FAIL == "FAIL"
RUN_ERROR == "ERROR"
RUN_CATASTROPHIC == "CATASTROPHIC"
TaskStatus == {RUN_SKIP, RUN_SUCCESS, RUN_FAIL, RUN_ERROR, RUN_CATASTROPHIC}

\* rerun_failures = None
NoRerun == -1

SeqToSet(s) == {s[i] : i \in 1..Len(s)}
Min(a, b) == IF a < b THEN a ELSE b

\* ------------------------------------------------------------------- graph
\* The root is the node of the base class Task: add_task creates the parents
\* of a task before the task, so the first node created is Task().
Root == 1
Nodes == 1..Len(parents)
Parents(n) == SeqToSet(parents[n])
Children(n) == SeqToSet(children[n])
IsBaseTask(n) == n = Root

\* forwards()/reversed(): depth-first, the node first, a visited set against
\* revisits.  edges is children (forwards) or parents (reversed).
RECURSIVE Walk(_, _, _)
Walk(edges, todo, seen) ==
    IF todo = <<>> THEN seen
    ELSE IF Head(todo) \in SeqToSet(seen) THEN Walk(edges, Tail(todo), seen)
    ELSE Walk(edges, edges[Head(todo)] \o Tail(todo), Append(seen, Head(todo)))

\* no iteration
NoWalk == [fn |-> "none", edges |-> <<>>, start |-> 0, stack |-> <<>>,
           visited |-> {}, yielded |-> <<>>]

forwards(n) == Walk(children, <<n>>, <<>>)
reversed(n) == Walk(parents, <<n>>, <<>>)

Descendants(n) == SeqToSet(forwards(n)) \ {n}
Ancestors(n) == SeqToSet(reversed(n)) \ {n}

\* Python's C3 linearisation of a class with the given bases: a class
\* statement whose bases have no linearisation raises TypeError, so no such
\* task class, and no node with such parents, exists.  A 0 in the result
\* stands for that failure.
RECURSIVE C3Merge(_, _)
C3Merge(lists, fuel) ==
    LET live == SelectSeq(lists, LAMBDA l : l # <<>>)
        good(h) == \A k \in 1..Len(live) : h \notin SeqToSet(Tail(live[k]))
        cands == {k \in 1..Len(live) : good(Head(live[k]))}
    IN  IF live = <<>> THEN <<>>
        ELSE IF cands = {} \/ fuel = 0 THEN <<0>>
        ELSE LET k == CHOOSE c \in cands : \A d \in cands : c <= d
                 h == Head(live[k])
                 rest == [j \in 1..Len(live) |->
                            SelectSeq(live[j], LAMBDA x : x # h)]
             IN  <<h>> \o C3Merge(rest, fuel - 1)

RECURSIVE Mro(_, _)
Mro(g, n) ==
    <<n>> \o C3Merge([i \in 1..Len(g[n]) |-> Mro(g, g[n][i])] \o <<g[n]>>,
                     Len(g))

\* parent lists a new task class can have over the classes of graph g
ParentLists(g) ==
    LET k == Len(g) + 1
        cand == UNION {[1..m -> 1..Len(g)] : m \in 1..Min(MaxParents, Len(g))}
    IN  {s \in cand :
            /\ \A i, j \in 1..Len(s) : i # j => s[i] # s[j]
            /\ 0 \notin SeqToSet(Mro(Append(g, s), k))}

\* RunnerGraph.__init__/add_task: the graphs of n nodes, numbered in the
\* order add_task creates them (every parent before its child).
RECURSIVE GraphsOfSize(_)
GraphsOfSize(n) ==
    IF n = 1 THEN {<< <<>> >>}
    ELSE UNION {{Append(g, s) : s \in ParentLists(g)} :
                  g \in GraphsOfSize(n - 1)}

Graphs == UNION {GraphsOfSize(n) : n \in 2..MaxNodes}

\* add_task appends each new node to the children of its parents
RECURSIVE ChildrenUpTo(_, _, _)
ChildrenUpTo(g, p, c) ==
    IF c = 0 THEN <<>>
    ELSE ChildrenUpTo(g, p, c - 1) \o
         (IF p \in SeqToSet(g[c]) THEN <<c>> ELSE <<>>)

ChildrenOf(g) == [p \in 1..Len(g) |-> ChildrenUpTo(g, p, Len(g))]

\* --------------------------------------------------- RunnerGraph.add_task
\* The task classes tasks are made of: the module and name of each, its bases
\* and the ARGUMENTS its body declares.  Class 1 is the base Task; the
\* classes of one module bear different names.
TaskClasses ==
    << [module |-> "automation_traverse.task", name |-> "Task",
        bases |-> <<>>, declared |-> {}],
       [module |-> "tasks", name |-> "B", bases |-> <<1>>,
        declared |-> {"x"}],
       [module |-> "tasks", name |-> "C", bases |-> <<1>>,
        declared |-> {"y"}],
       [module |-> "tasks", name |-> "D", bases |-> <<2, 3>>,
        declared |-> {}] >>

\* TaskMeta.__new__ lines 97-100, 116
PARENTS(cls) ==
    IF TaskClasses[cls].name # "Task" THEN TaskClasses[cls].bases ELSE <<>>

\* TaskMeta.__new__ lines 97-101, 108, 117: the names of the dict
RECURSIVE ARGUMENTS(_)
ARGUMENTS(cls) ==
    UNION {ARGUMENTS(b) : b \in SeqToSet(PARENTS(cls))}
        \cup TaskClasses[cls].declared

\* Task.args: a dict, its items in insertion order
ArgNames == {"x", "y"}
ArgDicts ==
    {a \in UNION {[1..n -> ArgNames \X (1..MaxValue)] :
                     n \in 0..Cardinality(ArgNames)} :
        \A i, j \in DOMAIN a : i # j => a[i][1] # a[j][1]}

\* Task.__str__ line 424: ",".join(f"{k}={repr(v)}" ...), as the list of the
\* pieces of the string
RECURSIVE arg_str(_)
arg_str(args) ==
    IF args = <<>> THEN <<>>
    ELSE LET item == <<Head(args)[1], "=", ToString(Head(args)[2])>> IN
         IF Len(args) = 1 THEN item
         ELSE item \o <<",">> \o arg_str(Tail(args))

\* Task.__str__ line 425
TaskStr(cls, args) == <<TaskClasses[cls].name, "(">> \o arg_str(args) \o <<")">>

\* RunnerNode.generate_key
generate_key(cls, args) ==
    <<TaskClasses[cls].module, ".">> \o TaskStr(cls, args)

\* RunnerGraph.__init__ with no tasks; adds, allow_duplicate, call and ret
\* record the add_task calls made so far and the last of them
EmptyGraph ==
    [nodes |-> <<>>, all_nodes |-> {}, root |-> 0,
     adds |-> 0, allow_duplicate |-> FALSE,
     call |-> [cls |-> 1, args |-> <<>>], ret |-> 0]

\* no key is ever found
Registered_Never(g, key) == FALSE

\* all_nodes, a dict, as its set of <<key, node>> items
Registered(g, key) == \E e \in g.all_nodes : e[1] = key
NodeOf(g, key) == (CHOOSE e \in g.all_nodes : e[1] = key)[2]

\* no parent is given the child
AppendChild_None(nodes, parent_nodes, n) == nodes

\* lines 122-123
RECURSIVE AppendChild(_, _, _)
AppendChild(nodes, parent_nodes, n) ==
    IF parent_nodes = <<>> THEN nodes
    ELSE AppendChild([nodes EXCEPT ![Head(parent_nodes)].children =
                                       Append(@, n)],
                     Tail(parent_nodes), n)

\* RunnerGraph.add_task and its loop over task.PARENTS (lines 111-114): the
\* graph after the call and the node it returns
RECURSIVE add_task(_, _, _, _), AddParents(_, _, _)
AddParents(g, classes, args) ==
    IF classes = <<>> THEN [g |-> g, nodes |-> <<>>]
    ELSE LET parent == Head(classes)
             parent_args ==
                 SelectSeq(args, LAMBDA a : a[1] \in ARGUMENTS(parent))
             first == add_task(g, parent, parent_args, FALSE)
             rest == AddParents(first.g, Tail(classes), args)
         IN  [g |-> rest.g, nodes |-> <<first.node>> \o rest.nodes]

add_task(g, cls, args, allow_duplicate) ==
    LET key == generate_key(cls, args) IN
    IF Registered(g, key) THEN [g |-> g, node |-> NodeOf(g, key)]
    ELSE LET up == AddParents(g, PARENTS(cls), args)
             n == Len(up.g.nodes) + 1
             made == Append(up.g.nodes,
                            [cls |-> cls, args |-> args,
                             parents |-> up.nodes, children |-> <<>>])
         IN  [g |-> [up.g EXCEPT
                       !.nodes = AppendChild(made, up.nodes, n),
                       !.all_nodes =
                           IF allow_duplicate THEN @
                           ELSE {e \in @ : e[1] # key} \cup {<<key, n>>},
                       !.root = IF @ = 0 THEN n ELSE @],
              node |-> n]

\* -------------------------------------------------------------- node state
\* RunnerNode.__init__ and the flags RunnerNode.reset writes
FreshNode == [run_complete |-> FALSE, children_complete |-> FALSE,
              complete |-> FALSE, run_attrs |-> <<>>]

\* automation_entities.context.patch_dict(d, p) on dicts of plain values:
\* the items of p go over those of d
patch_dict(d, p) ==
    [k \in DOMAIN d \cup DOMAIN p |-> IF k \in DOMAIN p THEN p[k] ELSE d[k]]

\* PRESENTED_ATTRS (TaskMeta.__new__ lines 96, 105, 110, 120): the names the
\* bases present and the names the class declares.  The class of node n
\* declares one attribute, named n; the base Task declares none.
RECURSIVE PRESENTED_ATTRS(_)
PRESENTED_ATTRS(n) ==
    IF IsBaseTask(n) THEN {}
    ELSE {n} \cup UNION {PRESENTED_ATTRS(p) : p \in Parents(n)}

\* Task.__init__: what a new instance (also a clone) holds.  error and
\* error_text name the node whose task raised (0: None).  teardown_stack is
\* FALSE for the empty stack and TRUE once setup/run may have registered
\* callbacks: only Task.execute_teardown reads the stack, and the callbacks
\* (0..MaxCallbacks of them) are drawn there.  own and torn record of this
\* instance that its own setup/run ended with a status and that
\* execute_teardown was invoked on it.  attrs are the instance
\* attributes set by patch_attrs and by the task's own code, each value the
\* node whose task wrote it; held records the attrs at the start of setup.
NewTask == [status |-> UNSET, error |-> 0, error_text |-> 0,
            teardown_stack |-> FALSE, own |-> FALSE, torn |-> FALSE,
            attrs |-> <<>>, held |-> <<>>]

\* Task.patch_attrs (task.py 313-321)
patch_attrs(t, new_attrs) == [t EXCEPT !.attrs = patch_dict(@, new_attrs)]

\* task.__getattribute__(attr) for a presented attribute: the instance
\* attribute, or the None (0) TaskMeta.__new__ puts on the class (lines
\* 124-126)
GetAttr(t, attr) == IF attr \in DOMAIN t.attrs THEN t.attrs[attr] ELSE 0

\* Task.clone
clone(t) == NewTask

check_complete(nd, n) == nd[n].complete
\* a check_can_run that lets every node run
check_can_run_Always(nd, n) == TRUE

\* RunnerNode.check_can_run
check_can_run(nd, n) == ~check_complete(nd, n)

\* RunnerNode.reset(recursive=False) on the pair w = [node, task]
reset(w, n) ==
    [node |-> [w.node EXCEPT ![n] = FreshNode],
     task |-> [w.task EXCEPT ![n] = clone(w.task[n])]]

\* reset of every node of a set (reset(recursive=True) visits forwards())
ResetAll(w, S) ==
    [node |-> [n \in DOMAIN w.node |->
                 IF n \in S THEN FreshNode ELSE w.node[n]],
     task |-> [n \in DOMAIN w.task |->
                 IF n \in S THEN clone(w.task[n]) ELSE w.task[n]]]

\* a finish_node that leaves a node with incomplete children as it is
finish_node_NoReset(w, n) ==
    LET cc == \A c \in Children(n) : check_complete(w.node, c)
        w1 == [w EXCEPT !.node[n].children_complete = cc]
    IN  IF ~cc THEN w1
        ELSE [w1 EXCEPT !.node[n].complete = TRUE]

\* RunnerNode.finish_node
finish_node(w, n) ==
    LET cc == \A c \in Children(n) : check_complete(w.node, c)
        w1 == [w EXCEPT !.node[n].children_complete = cc]
    IN  IF ~cc THEN reset(w1, n)
        ELSE [w1 EXCEPT !.node[n].complete = TRUE]

\* finish_node on each node of a list, in its order
RECURSIVE FinishEach(_, _)
FinishEach(w, ns) ==
    IF ns = <<>> THEN w ELSE FinishEach(finish_node(w, Head(ns)), Tail(ns))

find_outstanding_nodes_None(n, pth) == {}

\* a find_outstanding_nodes that goes on above a run_complete parent
RECURSIVE find_outstanding_nodes_All(_, _)
find_outstanding_nodes_All(n, pth) ==
    UNION {IF p \in pth THEN {}
           ELSE (IF node[p].run_complete THEN {p} ELSE {})
                    \cup find_outstanding_nodes_All(p, pth) : p \in Parents(n)}

\* RunnerNode.find_outstanding_nodes
RECURSIVE find_outstanding_nodes(_, _)
find_outstanding_nodes(n, pth) ==
    UNION {IF p \in pth THEN {}
           ELSE IF node[p].run_complete THEN {p}
           ELSE find_outstanding_nodes(p, pth) : p \in Parents(n)}

\* passes: the calls of root.execute made by run(); finalized: the calls of
\* finalize() each emitter got; teardown: the node of the last
\* execute_teardown, start and end: the calls of start_task and end_task
\* each emitter got in it; resets: how often RunnerGraph.reset() reset each
\* node; removed: the list clean_graph() returned
NoHist == [passes |-> 0, finalized |-> 0, teardown |-> 0, start |-> 0,
           end |-> 0, resets |-> <<>>, removed |-> <<>>]

\* ------------------------------------------------------- Task (task.py)
\* The exceptions the code of a task raises, each with the classes it is an
\* instance of: TaskSkip (task.py 79), AssertionError, and KeyError for any
\* other class derived from Exception.
ExcBases == [TaskSkip |-> {"TaskSkip", "Exception"},
             AssertionError |-> {"AssertionError", "Exception"},
             KeyError |-> {"KeyError", "Exception"}]

Exceptions == DOMAIN ExcBases

NoExc == "none"

\* the except clauses of Task.execute_run, in their order (task.py 341, 347,
\* 356): the class caught and the status set
ExceptClauses == <<[cls |-> "TaskSkip", status |-> RUN_SKIP],
                   [cls |-> "AssertionError", status |-> RUN_FAIL],
                   [cls |-> "Exception", status |-> RUN_ERROR]>>

\* the clauses taken in the opposite order
RunHandler_Reversed(exc) ==
    LET hits == {i \in DOMAIN ExceptClauses :
                    ExceptClauses[i].cls \in ExcBases[exc]}
    IN  IF hits = {} THEN "propagate"
        ELSE ExceptClauses[CHOOSE i \in hits : \A j \in hits : j <= i].status

\* the status the try statement of Task.execute_run gives for exc: that of
\* the first clause that matches, "propagate" when none does
RunHandler(exc) ==
    LET hits == {i \in DOMAIN ExceptClauses :
                    ExceptClauses[i].cls \in ExcBases[exc]}
    IN  IF hits = {} THEN "propagate"
        ELSE ExceptClauses[CHOOSE i \in hits : \A j \in hits : i <= j].status

\* A teardown stack is a sequence of callbacks, the last registered at the
\* end; bad are the callbacks that raise (KeyError) when invoked.  The
\* operations return the stack left, the callbacks invoked in order and the
\* exception raised.
Fns == 1..MaxFns

\* Task.add_teardown (task.py 286-292)
add_teardown(stk, fcn) == Append(stk, fcn)

RECURSIVE teardown_Fifo(_, _)
\* a teardown that takes the callbacks from the other end
teardown_Fifo(stk, bad) ==
    IF stk = <<>> THEN [stack |-> <<>>, called |-> <<>>, raised |-> NoExc]
    ELSE LET f == Head(stk) IN
         IF f \in bad
         THEN [stack |-> Tail(stk), called |-> <<f>>, raised |-> "KeyError"]
         ELSE LET r == teardown_Fifo(Tail(stk), bad)
              IN  [r EXCEPT !.called = <<f>> \o @]

RECURSIVE teardown(_, _)
\* Task.teardown (task.py 279-284)
teardown(stk, bad) ==
    IF stk = <<>> THEN [stack |-> <<>>, called |-> <<>>, raised |-> NoExc]
    ELSE LET f == stk[Len(stk)]
             rest == SubSeq(stk, 1, Len(stk) - 1)
         IN  IF f \in bad
             THEN [stack |-> rest, called |-> <<f>>, raised |-> "KeyError"]
             ELSE LET r == teardown(rest, bad)
                  IN  [r EXCEPT !.called = <<f>> \o @]

RECURSIVE teardown_to_function_Excluding(_, _, _)
\* a teardown_to_function that stops in front of fcn
teardown_to_function_Excluding(stk, fcn, bad) ==
    IF stk = <<>>
    THEN [stack |-> <<>>, called |-> <<>>, raised |-> "AssertionError"]
    ELSE LET f == stk[Len(stk)]
             rest == SubSeq(stk, 1, Len(stk) - 1)
         IN  IF f = fcn
             THEN [stack |-> stk, called |-> <<>>, raised |-> NoExc]
             ELSE IF f \in bad
             THEN [stack |-> rest, called |-> <<f>>, raised |-> "KeyError"]
             ELSE LET r == teardown_to_function_Excluding(rest, fcn, bad)
                  IN  [r EXCEPT !.called = <<f>> \o @]

RECURSIVE teardown_to_function(_, _, _)
\* Task.teardown_to_function (task.py 294-305)
teardown_to_function(stk, fcn, bad) ==
    IF stk = <<>>
    THEN [stack |-> <<>>, called |-> <<>>, raised |-> "AssertionError"]
    ELSE LET f == stk[Len(stk)]
             rest == SubSeq(stk, 1, Len(stk) - 1)
         IN  IF f \in bad
             THEN [stack |-> rest, called |-> <<f>>, raised |-> "KeyError"]
             ELSE IF f = fcn
             THEN [stack |-> rest, called |-> <<f>>, raised |-> NoExc]
             ELSE LET r == teardown_to_function(rest, fcn, bad)
                  IN  [r EXCEPT !.called = <<f>> \o @]

\* the last call made on the teardown stack: the operation, its argument,
\* the stack before it and what it returned
NoCall == [op |-> "none", fcn |-> 0, before |-> <<>>, stack |-> <<>>,
           called |-> <<>>, raised |-> NoExc]

\* Task.__init__ (task.py 215-226) for a class with the given SETUP_DEFINED,
\* RUN_DEFINED and DEBUG_FCNS (TaskMeta.__new__, lines 118-122).  pc is the
\* position in execute_run / execute_teardown, calls the code invoked so
\* far, exc the exception that left setup/run and where the stage it left,
\* prior the status when execute_teardown began, todo the debug functions
\* not yet invoked.
TaskInstance(setup_defined, run_defined, debug_fcns, bad, bad_debug) ==
    [pc |-> "new", SETUP_DEFINED |-> setup_defined,
     RUN_DEFINED |-> run_defined, DEBUG_FCNS |-> debug_fcns,
     bad |-> bad, bad_debug |-> bad_debug,
     status |-> UNSET, error |-> NoExc, error_text |-> NoExc,
     teardown_stack |-> <<>>, calls |-> <<>>, ops |-> 0, last |-> NoCall,
     exc |-> NoExc, where |-> "none", prior |-> UNSET, todo |-> {}]

NoTask == [TaskInstance(FALSE, FALSE, {}, {}, {}) EXCEPT !.pc = "none"]

\* ------------------------------------------- TraverseContext (context.py)
\* Emitter.__init__ (emitter.py 76-77); got is the last message the emitter
\* was sent with log_message
NewEmitter == [context_level |-> 0, got |-> <<>>]

\* Emitter.subcontext (emitter.py 92-101)
EmitterSubcontext(em) == [em EXCEPT !.context_level = @ + 1]

\* a pop_subcontext that leaves the emitter where it is
pop_subcontext_Keep(em, context_level) == em

\* Emitter.pop_subcontext (emitter.py 103-111)
pop_subcontext(em, context_level) ==
    [em EXCEPT !.context_level = context_level]

\* Emitter.log_message, as seen by the one who reads the emitter
log_message(em, log_level, message) ==
    [em EXCEPT !.got = <<log_level, message>>]

\* TraverseContext.__init__ (context.py 16-28): no emitters, position 0.
\* ems are the emitters that exist, emitters the list of the attached ones,
\* handles the open subcontexts, each the position it captured; early are
\* the emitters attached before any subcontext was opened, sent the
\* message of the last subcontext opened, closed whether one was closed.
NewContext == [log_position |-> 0, emitters |-> <<>>,
               ems |-> [e \in 1..MaxEmitters |-> NewEmitter],
               handles |-> <<>>, opened |-> FALSE, closed |-> FALSE,
               early |-> {}, sent |-> <<>>]

NoContext == [NewContext EXCEPT !.ems = <<>>]

\* TraverseContext.add_emitter (context.py 30-34)
add_emitter(c, e) ==
    [c EXCEPT !.emitters = Append(@, e),
              !.early = IF c.opened THEN @ ELSE @ \cup {e}]

\* Subcontext.__init__ and __enter__ of the base package: the handle
\* captures the position of the context and entering raises the position
SubcontextEnter(c) ==
    [c EXCEPT !.handles = Append(@, c.log_position),
              !.log_position = @ + 1]

\* Subcontext.__exit__ of the base package: the position goes back to the
\* one the handle captured
SubcontextExit(c) ==
    [c EXCEPT !.log_position = c.handles[Len(c.handles)],
              !.handles = SubSeq(@, 1, Len(@) - 1)]

\* with context.subcontext(message, log_level): TraverseContext.subcontext
\* (context.py 36-47) sends the message to every emitter, and
\* TraverseSubcontext.__enter__ (lines 152-159) enters the base subcontext
\* and calls subcontext() on every emitter
subcontext(c, message, log_level) ==
    LET attached == SeqToSet(c.emitters)
        c1 == [c EXCEPT !.ems = [e \in DOMAIN @ |->
                   IF e \in attached
                   THEN log_message(@[e], log_level, message) ELSE @[e]]]
        c2 == SubcontextEnter(c1)
    IN  [c2 EXCEPT !.ems = [e \in DOMAIN @ |->
                     IF e \in attached THEN EmitterSubcontext(@[e])
                     ELSE @[e]],
                   !.opened = TRUE,
                   !.sent = <<log_level, message>>]

\* TraverseSubcontext.__exit__ (context.py 161-165), whatever the exception
\* it is given: the base subcontext is left, then TraverseContext.
\* pop_subcontext (lines 49-54) pops every emitter to the position of the
\* context
SubcontextClose(c) ==
    LET c1 == SubcontextExit(c) IN
    [c1 EXCEPT !.ems = [e \in DOMAIN @ |->
                  IF e \in SeqToSet(c1.emitters)
                  THEN pop_subcontext(@[e], c1.log_position) ELSE @[e]],
               !.closed = TRUE]

\* ------------------------------------------------------------- call stack
Frame(fn, n, pc) ==
    [fn |-> fn, node |-> n, pc |-> pc,
     out |-> {},       \* outstanding_nodes (None and the empty set alike)
     res |-> {},       \* value returned by the last call made
     i |-> 1,          \* index into parents / children
     avail |-> <<>>,   \* save_the_children: available_children
     left |-> {},      \* leftover_children
     fin |-> {},       \* finished_children
     last |-> {},      \* last_leftover_children
     child |-> 0,      \* child / parent / teardown_node in hand
     ws |-> {},        \* teardown_outstanding: teardown_nodes
     wrt |-> 0,        \* teardown_outstanding: wrt
     given |-> {},     \* teardown_outstanding: outstanding_nodes as passed
     torn |-> {},      \* teardown_outstanding: nodes it tore down
     handler |-> FALSE]\* run: inside the except FinishRun handler

Top == stack[Len(stack)]
At(fn, pc) == stack # <<>> /\ Top.fn = fn /\ Top.pc = pc

\* the running frame becomes f
Goto(f) == [stack EXCEPT ![Len(stack)] = f]
\* the running frame becomes f and calls callee
Call(f, callee) == Append(Goto(f), callee)
\* the running frame returns v to its caller
Return(v) ==
    [SubSeq(stack, 1, Len(stack) - 1) EXCEPT ![Len(stack) - 1].res = v]

\* the exception is dropped where it is raised
Raise_Swallowed(exc) == Return({})

\* An exception leaves every frame above run(): none of them catches.  run()
\* catches FinishRun and StopRun raised inside its try block (lines 169-183);
\* inside the FinishRun handler nothing is caught, and no other exception is
\* caught anywhere: it leaves run() ("raised").
Raise(exc) ==
    LET r == stack[1] IN
    IF r.handler \/ exc \notin {"FinishRun", "StopRun"}
    THEN <<[r EXCEPT !.pc = "raised"]>>
    ELSE IF exc = "FinishRun"
         THEN <<[r EXCEPT !.pc = "after_teardown_all", !.handler = TRUE],
                Frame("teardown_all", Root, "start")>>
    ELSE <<[r EXCEPT !.pc = "finalize"]>>

\* orders random.shuffle can leave a list in
Shuffles(s) ==
    {p \in [1..Len(s) -> SeqToSet(s)] :
        \A i, j \in 1..Len(s) : i # j => p[i] # p[j]}

\* ------------------------------------------------------------------- Init
Init ==
    /\ parents \in Graphs
    /\ children = ChildrenOf(parents)
    /\ opts \in [random_order : BOOLEAN, failfast : BOOLEAN,
                 rerun_failures : {NoRerun} \cup 0..MaxRerun,
                 emitters : {"none"}]
    /\ tasks_raise = TRUE
    /\ graph = EmptyGraph
    /\ walk = NoWalk
    /\ inst = NoTask
    /\ ctx = NoContext
    /\ node = [n \in Nodes |-> FreshNode]
    /\ task = [n \in Nodes |-> NewTask]
    /\ path = {}
    /\ stack = <<Frame("run", Root, "start")>>
    /\ failure_iters = 0
    /\ success = TRUE
    /\ stopped = "none"
    /\ ran_pass = {}
    /\ todo_pass = {}
    /\ doomed = {}
    /\ hist = NoHist

\* ------------------------------------------------------- RunnerGraph.run
\* lines 164-167
RunStart ==
    /\ At("run", "start")
    /\ failure_iters' = IF opts.rerun_failures = NoRerun THEN 0
                        ELSE opts.rerun_failures
    /\ stack' = Goto([Top EXCEPT !.pc = "loop"])
    /\ UNCHANGED <<inputs, node, task, path, success, stopped, ran_pass,
                   todo_pass, doomed, hist>>

\* line 170: a pass begins, execute() makes its path set
RunExecute ==
    /\ At("run", "loop")
    /\ stack' = Call([Top EXCEPT !.pc = "after_execute"],
                     Frame("execute", Root, "start"))
    /\ path' = {}
    /\ ran_pass' = {}
    /\ todo_pass' = {n \in Nodes : ~node[n].complete}
    /\ doomed' = {}
    /\ hist' = [hist EXCEPT !.passes = Min(@ + 1, MaxPasses)]
    /\ UNCHANGED <<inputs, node, task, failure_iters, success, stopped>>

\* lines 171-172
RunTeardownAll ==
    /\ At("run", "after_execute")
    /\ stack' = Call([Top EXCEPT !.pc = "after_teardown_all"],
                     Frame("teardown_all", Root, "start"))
    /\ UNCHANGED <<inputs, node, task, path, failure_iters, success, stopped,
                   ran_pass, todo_pass, doomed, hist>>

NotOk(tk, n) == tk[n].status \notin {RUN_SKIP, RUN_SUCCESS}

\* nodes the rerun resets: each failed node with its descendants (recursive
\* reset) and its ancestors (lines 200-203)
RerunResets(rerun_nodes) ==
    UNION {SeqToSet(forwards(n)) \cup SeqToSet(reversed(n)) : n \in rerun_nodes}

\* line 208: the loop of run() ends
PassFinished_Always == TRUE

PassFinished == node[Root].complete

\* lines 176-179 (after the handler's teardown_all) and lines 185-209
RunScan ==
    /\ At("run", "after_teardown_all")
    /\ IF Top.handler
       THEN /\ success' = FALSE
            /\ stack' = Goto([Top EXCEPT !.pc = "finalize", !.handler = FALSE])
            /\ UNCHANGED <<node, task, failure_iters>>
       ELSE LET all == SeqToSet(forwards(Root))
                rerun_nodes == {n \in all : NotOk(task, n)}
                s1 == IF rerun_nodes # {} THEN FALSE ELSE success
                w == ResetAll([node |-> node, task |-> task],
                              RerunResets(rerun_nodes))
            IN  IF /\ opts.rerun_failures # NoRerun
                   /\ failure_iters > 0
                   /\ rerun_nodes # {}
                THEN /\ success' = TRUE
                     /\ node' = w.node
                     /\ task' = w.task
                     /\ failure_iters' = failure_iters - 1
                     /\ stack' = Goto([Top EXCEPT !.pc = "loop"])
                ELSE /\ success' = s1
                     /\ stack' = Goto([Top EXCEPT !.pc =
                            IF PassFinished THEN "finalize" ELSE "loop"])
                     /\ UNCHANGED <<node, task, failure_iters>>
    /\ UNCHANGED <<inputs, path, stopped, ran_pass, todo_pass, doomed, hist>>

\* line 211 calls finalize() without opts, and finalize then takes
\* RunOptions() (line 216), whose emitters is None (line 56)
finalize_emitters == "none"

\* lines 211-213, finalize (lines 215-218)
RunReturn ==
    /\ At("run", "finalize")
    /\ stack' = Goto([Top EXCEPT !.pc = "done"])
    /\ hist' = IF finalize_emitters # "none"
               THEN [hist EXCEPT !.finalized = @ + 1]
               ELSE hist
    /\ UNCHANGED <<inputs, node, task, path, failure_iters, success, stopped,
                   ran_pass, todo_pass, doomed>>

\* --------------------------------------------------- RunnerNode.execute
\* lines 590-596
Execute ==
    /\ At("execute", "start")
    /\ stack' = Call([Top EXCEPT !.pc = "after_run"],
                     [Frame("execute_run", Top.node, "start") EXCEPT
                        !.out = Top.out])
    /\ UNCHANGED <<inputs, node, task, path, failure_iters, success, stopped,
                   ran_pass, todo_pass, doomed, hist>>

\* lines 600-612
ExecuteChildren ==
    /\ At("execute", "after_run")
    /\ IF ~node[Top.node].run_complete
       THEN /\ stack' = Return(Top.res)
            /\ path' = path
       ELSE /\ path' = path \cup {Top.node}
            /\ stack' = Call([Top EXCEPT !.pc = "after_children",
                                         !.out = Top.res,
                                         !.given = Children(Top.node)],
                             Frame("save_the_children", Top.node, "start"))
    /\ UNCHANGED <<inputs, node, task, failure_iters, success, stopped,
                   ran_pass, todo_pass, doomed, hist>>

\* lines 613-622: save_the_children again while the children set changed
ExecuteTeardownSelf ==
    /\ At("execute", "after_children")
    /\ IF Top.given = Children(Top.node)
       THEN /\ path' = path \ {Top.node}
            /\ stack' = Call([Top EXCEPT !.pc = "after_teardown"],
                             Frame("execute_teardown", Top.node, "start"))
            /\ node' = node
       ELSE /\ node' = [node EXCEPT ![Top.node].children_complete = FALSE]
            /\ stack' = Call([Top EXCEPT !.given = Children(Top.node)],
                             Frame("save_the_children", Top.node, "start"))
            /\ path' = path
    /\ UNCHANGED <<inputs, task, failure_iters, success, stopped, ran_pass,
                   todo_pass, doomed, hist>>

\* line 624
ExecuteReturn ==
    /\ At("execute", "after_teardown")
    /\ stack' = Return(Top.out)
    /\ UNCHANGED <<inputs, node, task, path, failure_iters, success, stopped,
                   ran_pass, todo_pass, doomed, hist>>

\* ----------------------------------------------- RunnerNode.execute_run
\* lines 424-425
ExecuteRunOutstanding ==
    /\ At("execute_run", "start")
    /\ IF Top.out # {}
       THEN stack' = Call([Top EXCEPT !.pc = "parents"],
                          [Frame("teardown_outstanding", Top.node, "loop")
                             EXCEPT !.ws = Top.out, !.given = Top.out,
                             !.wrt = Top.node])
       ELSE stack' = Goto([Top EXCEPT !.pc = "parents"])
    /\ UNCHANGED <<inputs, node, task, path, failure_iters, success, stopped,
                   ran_pass, todo_pass, doomed, hist>>

\* line 428: the parent has to be run first
ParentNotRun_Never(p) == FALSE

ParentNotRun(p) == ~node[p].run_complete

\* the node keeps what it has
InheritAttrs_OwnWins(nd, n, p) ==
    [nd EXCEPT ![n].run_attrs = patch_dict(nd[p].run_attrs, @)]

\* line 442: the run_attrs of parent p go over those of node n
InheritAttrs(nd, n, p) ==
    [nd EXCEPT ![n].run_attrs = patch_dict(@, nd[p].run_attrs)]

\* lines 427-429, 442-447: the next parent; after the last, line 444-447
ExecuteRunParents ==
    /\ At("execute_run", "parents")
    /\ LET n == Top.node IN
       IF Top.i <= Len(parents[n])
       THEN LET p == parents[n][Top.i] IN
            IF ParentNotRun(p)
            THEN /\ stack' = Call([Top EXCEPT !.pc = "after_parent",
                                              !.child = p],
                                  Frame("execute_run", p, "start"))
                 /\ node' = node
            ELSE /\ stack' = Goto([Top EXCEPT !.i = @ + 1])
                 /\ node' = InheritAttrs(node, n, p)
       ELSE LET outstanding == find_outstanding_nodes(n, path) IN
            /\ node' = node
            /\ IF ~check_can_run(node, n)
               THEN stack' = Return(outstanding)
               ELSE stack' = Goto([Top EXCEPT !.pc = "run_task",
                                              !.out = outstanding])
    /\ UNCHANGED <<inputs, task, path, failure_iters, success, stopped,
                   ran_pass, todo_pass, doomed, hist>>

\* lines 431-442
ExecuteRunAfterParent ==
    /\ At("execute_run", "after_parent")
    /\ LET p == Top.child IN
       IF ~node[p].run_complete \/ task[p].status # UNSET
       THEN /\ stack' = Return(find_outstanding_nodes(Top.node, path))
            /\ node' = node
       ELSE /\ stack' = Goto([Top EXCEPT !.pc = "parents", !.i = @ + 1])
            /\ node' = InheritAttrs(node, Top.node, p)
    /\ UNCHANGED <<inputs, task, path, failure_iters, success, stopped,
                   ran_pass, todo_pass, doomed, hist>>

\* Task.execute_run (task.py 323-379): st is how setup/run ended (UNSET: no
\* exception raised), writes the presented attributes the code of the task
\* assigned before that
TaskExecuteRun(t, n, st, writes) ==
    LET t1 == [t EXCEPT !.held = t.attrs,
                        !.attrs = patch_dict(@, [a \in writes |-> n])]
    IN  IF st = UNSET THEN [t1 EXCEPT !.teardown_stack = TRUE]
        ELSE [t1 EXCEPT !.status = st, !.error = n, !.error_text = n,
                        !.teardown_stack = TRUE, !.own = TRUE]

\* the attributes a task's setup/run assigns: the one its class declares
\* when nothing is raised, and all the inherited ones or none of them
AttrWrites(n, st) ==
    IF st = UNSET THEN {{n}, PRESENTED_ATTRS(n)} ELSE {{}}

\* Emitter.start_task (emitter.py 79-84) assigns into self.tasks, which
\* Emitter.__init__ (lines 76-77) does not create: the emitters of the
\* package raise AttributeError; an emitter that overrides the hook or
\* creates tasks ("custom") does not
StartTaskRaises == opts.emitters = "stock"

\* how the setup/run of a task can end
RunOutcomes == IF tasks_raise THEN {UNSET, RUN_SKIP, RUN_FAIL, RUN_ERROR}
               ELSE {UNSET}

\* lines 455-466: start_task for each emitter, patch_attrs, then the task's
\* setup and run; nothing for the base class
RunTask ==
    /\ At("execute_run", "run_task")
    /\ LET n == Top.node IN
       IF IsBaseTask(n)
       THEN /\ task' = task
            /\ stack' = Goto([Top EXCEPT !.pc = "update_status"])
            /\ stopped' = stopped
       ELSE IF StartTaskRaises
       THEN /\ task' = task
            /\ stack' = Raise("AttributeError")
            /\ stopped' = "AttributeError"
       ELSE /\ \E st \in RunOutcomes : \E writes \in AttrWrites(n, st) :
                   task' = [task EXCEPT ![n] =
                              TaskExecuteRun(
                                  patch_attrs(task[n], node[n].run_attrs),
                                  n, st, writes)]
            /\ stack' = Goto([Top EXCEPT !.pc = "update_status"])
            /\ stopped' = stopped
    /\ UNCHANGED <<inputs, node, path, failure_iters, success, ran_pass,
                   todo_pass, doomed, hist>>

\* line 468 calls update_status() without opts, and update_status then takes
\* RunOptions() (line 648), whose failfast is False (line 58)
update_status_failfast == FALSE

\* the status goes to the children only
Propagate_ChildrenOnly(w, n) ==
    LET ds == Children(n) IN
    [node |-> [d \in DOMAIN w.node |->
                 IF d = n THEN [w.node[d] EXCEPT !.children_complete = TRUE]
                 ELSE IF d \in ds
                      THEN [w.node[d] EXCEPT !.children_complete = TRUE,
                                             !.complete = TRUE]
                 ELSE w.node[d]],
     task |-> [d \in DOMAIN w.task |->
                 IF d \in ds
                 THEN [w.task[d] EXCEPT !.status = w.task[n].status,
                                        !.error = w.task[n].error,
                                        !.error_text = w.task[n].error_text]
                 ELSE w.task[d]]]

\* the status goes to every node of the graph below the root
Propagate_WholeGraph(w, n) ==
    LET ds == Descendants(Root) \ {n} IN
    [node |-> [d \in DOMAIN w.node |->
                 IF d = n THEN [w.node[d] EXCEPT !.children_complete = TRUE]
                 ELSE IF d \in ds
                      THEN [w.node[d] EXCEPT !.children_complete = TRUE,
                                             !.complete = TRUE]
                 ELSE w.node[d]],
     task |-> [d \in DOMAIN w.task |->
                 IF d \in ds
                 THEN [w.task[d] EXCEPT !.status = w.task[n].status,
                                        !.error = w.task[n].error,
                                        !.error_text = w.task[n].error_text]
                 ELSE w.task[d]]]

\* update_status lines 661-673: the status goes to every descendant
Propagate(w, n) ==
    LET ds == Descendants(n) IN
    [node |-> [d \in DOMAIN w.node |->
                 IF d = n THEN [w.node[d] EXCEPT !.children_complete = TRUE]
                 ELSE IF d \in ds
                      THEN [w.node[d] EXCEPT !.children_complete = TRUE,
                                             !.complete = TRUE]
                 ELSE w.node[d]],
     task |-> [d \in DOMAIN w.task |->
                 IF d \in ds
                 THEN [w.task[d] EXCEPT !.status = w.task[n].status,
                                        !.error = w.task[n].error,
                                        !.error_text = w.task[n].error_text]
                 ELSE w.task[d]]]

\* RunnerNode.update_status (lines 644-673)
UpdateStatus ==
    /\ At("execute_run", "update_status")
    /\ LET n == Top.node
           w0 == [node |-> [node EXCEPT ![n].run_complete = TRUE],
                  task |-> task]
       IN  /\ ran_pass' = ran_pass \cup {n}
           /\ IF /\ update_status_failfast
                 /\ task[n].status \notin {UNSET, RUN_SKIP}
              THEN /\ node' = w0.node
                   /\ task' = task
                   /\ doomed' = doomed
                   /\ stack' = Call([Top EXCEPT !.pc = "raise_finish"],
                                    Frame("execute_teardown", n, "start"))
              ELSE IF task[n].status = UNSET
              THEN /\ node' = w0.node
                   /\ task' = task
                   /\ doomed' = doomed
                   /\ stack' = Goto([Top EXCEPT !.pc = "return"])
              ELSE /\ node' = Propagate(w0, n).node
                   /\ task' = Propagate(w0, n).task
                   /\ doomed' = doomed \cup Descendants(n)
                   /\ stack' = Goto([Top EXCEPT !.pc = "return"])
    /\ UNCHANGED <<inputs, path, failure_iters, success, stopped, todo_pass,
                   hist>>

\* lines 469-475: the values the task holds for its PRESENTED_ATTRS go over
\* the node's run_attrs
PresentAttrs(nd, n) ==
    [nd EXCEPT ![n].run_attrs =
        patch_dict(@, [a \in PRESENTED_ATTRS(n) |-> GetAttr(task[n], a)])]

\* lines 469-476; line 656 when update_status tore the node down for failfast
ExecuteRunReturn ==
    /\ stack # <<>> /\ Top.fn = "execute_run"
    /\ Top.pc \in {"return", "raise_finish"}
    /\ IF Top.pc = "raise_finish"
       THEN /\ stack' = Raise("FinishRun")
            /\ stopped' = "FinishRun"
            /\ node' = node
       ELSE /\ stack' = Return(Top.out)
            /\ stopped' = stopped
            /\ node' = PresentAttrs(node, Top.node)
    /\ UNCHANGED <<inputs, task, path, failure_iters, success, ran_pass,
                   todo_pass, doomed, hist>>

\* ------------------------------------------ RunnerNode.save_the_children
\* lines 488-493
SaveStart ==
    /\ At("save_the_children", "start")
    /\ IF ~node[Top.node].run_complete \/ node[Top.node].children_complete
       THEN stack' = Return({})
       ELSE stack' = Goto([Top EXCEPT !.pc = "round", !.out = {}, !.last = {}])
    /\ UNCHANGED <<inputs, node, task, path, failure_iters, success, stopped,
                   ran_pass, todo_pass, doomed, hist>>

\* lines 495-501: the children not complete, shuffled under random_order
SaveRound ==
    /\ At("save_the_children", "round")
    /\ LET available_children ==
               SelectSeq(children[Top.node],
                         LAMBDA c : ~check_complete(node, c))
       IN  \E order \in IF opts.random_order
                        THEN Shuffles(available_children)
                        ELSE {available_children} :
               stack' = Goto([Top EXCEPT !.pc = "pop", !.avail = order,
                                         !.left = {}, !.fin = {}])
    /\ UNCHANGED <<inputs, node, task, path, failure_iters, success, stopped,
                   ran_pass, todo_pass, doomed, hist>>

\* lines 502-512
SavePop ==
    /\ At("save_the_children", "pop")
    /\ Top.avail # <<>>
    /\ LET child == Head(Top.avail) IN
       IF ~check_can_run(node, child)
       THEN stack' = Goto([Top EXCEPT !.avail = Tail(@),
                                      !.left = @ \cup {child}])
       ELSE stack' = Call([Top EXCEPT !.avail = Tail(@), !.child = child,
                                      !.pc = "after_child"],
                          [Frame("execute", child, "start") EXCEPT
                             !.out = Top.out])
    /\ UNCHANGED <<inputs, node, task, path, failure_iters, success, stopped,
                   ran_pass, todo_pass, doomed, hist>>

\* lines 508, 513-517
SaveAfterChild ==
    /\ At("save_the_children", "after_child")
    /\ IF ~check_complete(node, Top.child)
       THEN stack' = Goto([Top EXCEPT !.pc = "pop", !.out = Top.res,
                                      !.left = @ \cup {Top.child}])
       ELSE stack' = Goto([Top EXCEPT !.pc = "pop", !.out = Top.res,
                                      !.fin = @ \cup {Top.child}])
    /\ UNCHANGED <<inputs, node, task, path, failure_iters, success, stopped,
                   ran_pass, todo_pass, doomed, hist>>

\* lines 519-536: another round, or out of the loop and the teardown of what
\* the children left standing
SaveDecide ==
    /\ At("save_the_children", "pop")
    /\ Top.avail = <<>>
    /\ IF \/ Top.left = {}
          \/ Top.left = Top.last
          \/ Cardinality(Top.left \cup Top.fin) = 1
       THEN IF Top.out # {}
            THEN stack' = Call([Top EXCEPT !.pc = "mark"],
                               [Frame("teardown_outstanding", Top.node, "loop")
                                  EXCEPT !.ws = Top.out, !.given = Top.out,
                                         !.wrt = Top.node])
            ELSE stack' = Goto([Top EXCEPT !.pc = "mark"])
       ELSE stack' = Goto([Top EXCEPT !.pc = "round", !.last = Top.left])
    /\ UNCHANGED <<inputs, node, task, path, failure_iters, success, stopped,
                   ran_pass, todo_pass, doomed, hist>>

\* lines 538-539
SaveReturn ==
    /\ At("save_the_children", "mark")
    /\ node' = IF Top.last = {}
               THEN [node EXCEPT ![Top.node].children_complete = TRUE]
               ELSE node
    /\ stack' = Return({})
    /\ UNCHANGED <<inputs, task, path, failure_iters, success, stopped,
                   ran_pass, todo_pass, doomed, hist>>

\* --------------------------------------- RunnerNode.teardown_outstanding
Spared_Never(t, wrt) == FALSE

Spared_Always(t, wrt) == TRUE

\* the nodes the call leaves alone: wrt and its ancestors (line 389)
Spared(t, wrt) == t \in SeqToSet(reversed(wrt))

\* lines 394-406: any node of the working set (random.choice, or the first
\* of a set of objects, whose order is not fixed); line 409
TeardownOutstanding ==
    /\ At("teardown_outstanding", "loop")
    /\ IF Top.ws = {}
       THEN stack' = Return({})
       ELSE \E t \in Top.ws :
              IF Spared(t, Top.wrt)
              THEN stack' = Goto([Top EXCEPT !.ws = @ \ {t}])
              ELSE stack' = Call([Top EXCEPT !.ws = @ \ {t}, !.child = t,
                                             !.torn = @ \cup {t},
                                             !.pc = "after_teardown"],
                                 Frame("execute_teardown", t, "start"))
    /\ UNCHANGED <<inputs, node, task, path, failure_iters, success, stopped,
                   ran_pass, todo_pass, doomed, hist>>

\* line 407
TeardownOutstandingParents ==
    /\ At("teardown_outstanding", "after_teardown")
    /\ stack' = Goto([Top EXCEPT !.pc = "loop",
                                 !.ws = @ \cup Parents(Top.child)])
    /\ UNCHANGED <<inputs, node, task, path, failure_iters, success, stopped,
                   ran_pass, todo_pass, doomed, hist>>

\* ------------------------------------------- RunnerNode.execute_teardown
\* Task.execute_teardown (task.py 381-406): teardown() runs when the stack
\* holds callbacks, k of them here; raises says one of them raised
TaskExecuteTeardown(t, n, k, raises) ==
    LET t1 == IF k = 0 THEN t
              ELSE IF raises
                   THEN [t EXCEPT !.status = RUN_CATASTROPHIC, !.error = n,
                                  !.error_text = n]
              ELSE t
    IN  [t1 EXCEPT !.status = IF @ = UNSET THEN RUN_SUCCESS ELSE @,
                   !.teardown_stack = FALSE,
                   !.torn = TRUE]

\* lines 549-572: a CATASTROPHIC task finishes the node and its ancestors and
\* raises StopRun; otherwise the node leaves its runlevel and is finished.
\* Each emitter gets start_task before the task's teardown and end_task
\* after it (lines 550-557), and end_task again from the handler of any
\* exception raised in the try block, StopRun included (lines 574-579).
ExecuteTeardown ==
    /\ At("execute_teardown", "start")
    /\ LET n == Top.node IN
       \E k \in 0..(IF task[n].teardown_stack THEN MaxCallbacks ELSE 0) :
       \E raises \in {r \in BOOLEAN : r => k > 0 /\ tasks_raise} :
         /\ LET t1 == IF IsBaseTask(n)
                      THEN [task[n] EXCEPT !.status = RUN_SUCCESS,
                                           !.torn = TRUE]
                      ELSE TaskExecuteTeardown(
                               patch_attrs(task[n], node[n].run_attrs),
                               n, k, raises)
                w1 == [node |-> [node EXCEPT ![n].run_complete = FALSE],
                       task |-> [task EXCEPT ![n] = t1]]
                told == IF IsBaseTask(n) \/ opts.emitters = "none" THEN 0 ELSE 1
            IN  IF ~IsBaseTask(n) /\ StartTaskRaises
                THEN /\ UNCHANGED <<node, task, success>>
                     /\ stack' = Raise("AttributeError")
                     /\ stopped' = "AttributeError"
                     /\ hist' = [hist EXCEPT !.teardown = n, !.start = told,
                                             !.end = told]
                ELSE IF ~IsBaseTask(n) /\ t1.status = RUN_CATASTROPHIC
                THEN /\ node' = FinishEach(w1, reversed(n)).node
                     /\ task' = FinishEach(w1, reversed(n)).task
                     /\ stack' = Raise("StopRun")
                     /\ stopped' = "StopRun"
                     /\ success' = IF stack[1].handler THEN success ELSE FALSE
                     /\ hist' = [hist EXCEPT !.teardown = n, !.start = told,
                                             !.end = told + told]
                ELSE /\ node' = finish_node(w1, n).node
                     /\ task' = finish_node(w1, n).task
                     /\ stack' = Return({})
                     /\ UNCHANGED <<stopped, success>>
                     /\ hist' = [hist EXCEPT !.teardown = n, !.start = told,
                                             !.end = told]
    /\ UNCHANGED <<inputs, path, failure_iters, ran_pass, todo_pass, doomed>>

\* ----------------------------------------------- RunnerNode.teardown_all
\* lines 347-354
TeardownAll ==
    /\ stack # <<>> /\ Top.fn = "teardown_all"
    /\ LET n == Top.node IN
       IF Top.pc = "start" /\ ~node[n].run_complete
       THEN stack' = Return({})
       ELSE IF Top.pc = "after_teardown"
       THEN stack' = Return({})
       ELSE IF Top.i <= Len(children[n])
       THEN stack' = Call([Top EXCEPT !.pc = "children", !.i = @ + 1],
                          Frame("teardown_all", children[n][Top.i], "start"))
       ELSE stack' = Call([Top EXCEPT !.pc = "after_teardown"],
                          Frame("execute_teardown", n, "start"))
    /\ UNCHANGED <<inputs, node, task, path, failure_iters, success, stopped,
                   ran_pass, todo_pass, doomed, hist>>

\* ------------------------------------------------------------------- Next
Next ==
    \/ RunStart
    \/ RunExecute
    \/ RunTeardownAll
    \/ RunScan
    \/ RunReturn
    \/ Execute
    \/ ExecuteChildren
    \/ ExecuteTeardownSelf
    \/ ExecuteReturn
    \/ ExecuteRunOutstanding
    \/ ExecuteRunParents
    \/ ExecuteRunAfterParent
    \/ RunTask
    \/ UpdateStatus
    \/ ExecuteRunReturn
    \/ SaveStart
    \/ SaveRound
    \/ SavePop
    \/ SaveAfterChild
    \/ SaveDecide
    \/ SaveReturn
    \/ TeardownOutstanding
    \/ TeardownOutstandingParents
    \/ ExecuteTeardown
    \/ TeardownAll

Spec == Init /\ [][Next]_vars

\* Runs without failfast, which run() never passes on to update_status.
\* run() is one thread of control: while a step is enabled it is taken.
InitFair == Init /\ ~opts.failfast

SpecFair == InitFair /\ [][Next]_vars /\ WF_vars(Next)

\* Larger graphs, run once with tasks whose code never raises: the orders in
\* which the runner sets up and tears down nodes that several tasks share.
InitWide ==
    /\ parents \in GraphsOfSize(WideNodes)
    /\ children = ChildrenOf(parents)
    /\ opts \in [random_order : BOOLEAN, failfast : {FALSE},
                 rerun_failures : {NoRerun}, emitters : {"none"}]
    /\ tasks_raise = FALSE
    /\ graph = EmptyGraph
    /\ walk = NoWalk
    /\ inst = NoTask
    /\ ctx = NoContext
    /\ node = [n \in Nodes |-> FreshNode]
    /\ task = [n \in Nodes |-> NewTask]
    /\ path = {}
    /\ stack = <<Frame("run", Root, "start")>>
    /\ failure_iters = 0
    /\ success = TRUE
    /\ stopped = "none"
    /\ ran_pass = {}
    /\ todo_pass = {}
    /\ doomed = {}
    /\ hist = NoHist

SpecWide == InitWide /\ [][Next]_vars

\* Runs with opts.emitters set: to emitters of the package ("stock":
\* SimpleLog, Terminal, which keep Emitter.start_task) or to emitters whose
\* hooks do not raise ("custom").
InitEmit ==
    /\ parents \in UNION {GraphsOfSize(n) : n \in 2..EmitNodes}
    /\ children = ChildrenOf(parents)
    /\ opts \in [random_order : BOOLEAN, failfast : BOOLEAN,
                 rerun_failures : {NoRerun} \cup 0..MaxRerun,
                 emitters : {"stock", "custom"}]
    /\ tasks_raise = TRUE
    /\ graph = EmptyGraph
    /\ walk = NoWalk
    /\ inst = NoTask
    /\ ctx = NoContext
    /\ node = [n \in Nodes |-> FreshNode]
    /\ task = [n \in Nodes |-> NewTask]
    /\ path = {}
    /\ stack = <<Frame("run", Root, "start")>>
    /\ failure_iters = 0
    /\ success = TRUE
    /\ stopped = "none"
    /\ ran_pass = {}
    /\ todo_pass = {}
    /\ doomed = {}
    /\ hist = NoHist

SpecEmit == InitEmit /\ [][Next]_vars

\* ------------------------------------------------- building a RunnerGraph
\* the variables of a run, which the construction of a graph leaves alone
run_vars == <<parents, children, opts, tasks_raise, node, task, path, stack,
              failure_iters, success, stopped, ran_pass, todo_pass, doomed,
              hist>>

\* no run: a graph of the root alone, nothing on the stack
NoRun ==
    /\ parents = <<<<>>>>
    /\ children = <<<<>>>>
    /\ opts = [random_order |-> FALSE, failfast |-> FALSE,
               rerun_failures |-> NoRerun, emitters |-> "none"]
    /\ tasks_raise = FALSE
    /\ node = <<FreshNode>>
    /\ task = <<NewTask>>
    /\ path = {}
    /\ stack = <<>>
    /\ failure_iters = 0
    /\ success = TRUE
    /\ stopped = "none"
    /\ ran_pass = {}
    /\ todo_pass = {}
    /\ doomed = {}
    /\ hist = NoHist

InitBuild ==
    /\ NoRun
    /\ graph = EmptyGraph
    /\ walk = NoWalk
    /\ inst = NoTask
    /\ ctx = NoContext

\* one call graph.add_task(cls(args), allow_duplicate)
AddTask ==
    /\ graph.adds < MaxAdds
    /\ \E cls \in DOMAIN TaskClasses, args \in ArgDicts,
          allow_duplicate \in BOOLEAN :
          LET r == add_task(graph, cls, args, allow_duplicate) IN
          graph' = [r.g EXCEPT
                      !.adds = @ + 1,
                      !.allow_duplicate = @ \/ allow_duplicate,
                      !.call = [cls |-> cls, args |-> args],
                      !.ret = r.node]
    /\ UNCHANGED <<run_vars, walk, inst, ctx>>

NextBuild == AddTask

SpecBuild == InitBuild /\ [][NextBuild]_vars

\* --------------------------------------- iterating forwards() / reversed()
\* Nodes linked in any way, cycles and shared nodes included: edges[n] is
\* n.children for forwards() and n.parents for reversed().  Each generator
\* call is a frame: its node and the index of the next entry of the list.
LinkLists == UNION {[1..k -> 1..WalkNodes] : k \in 0..WalkEdges}

InitWalk ==
    /\ NoRun
    /\ graph = EmptyGraph
    /\ walk \in [fn : {"forwards", "reversed"},
                 edges : [1..WalkNodes -> LinkLists],
                 start : 1..WalkNodes,
                 stack : {<<>>}, visited : {{}}, yielded : {<<>>}]
    /\ inst = NoTask
    /\ ctx = NoContext

WalkTop == walk.stack[Len(walk.stack)]

\* the first call, made by the caller of the iteration
WalkStart ==
    /\ walk.fn # "none" /\ walk.stack = <<>> /\ walk.yielded = <<>>
    /\ walk' = [walk EXCEPT !.stack = <<[node |-> walk.start, i |-> 0]>>]
    /\ UNCHANGED <<run_vars, graph, inst, ctx>>

\* lines 309, 329: the node was yielded before
AlreadyVisited_Never(n) == FALSE

AlreadyVisited(n) == n \in walk.visited

\* lines 309-310, 329-330: nothing is yielded for a visited node
WalkSkip ==
    /\ walk.stack # <<>> /\ WalkTop.i = 0
    /\ AlreadyVisited(WalkTop.node)
    /\ walk' = [walk EXCEPT !.stack = SubSeq(@, 1, Len(@) - 1)]
    /\ UNCHANGED <<run_vars, graph, inst, ctx>>

\* lines 313-314, 333-334: the node is yielded and marked
WalkYield ==
    /\ walk.stack # <<>> /\ WalkTop.i = 0
    /\ ~AlreadyVisited(WalkTop.node)
    /\ walk' = [walk EXCEPT !.yielded = Append(@, WalkTop.node),
                            !.visited = @ \cup {WalkTop.node},
                            !.stack[Len(walk.stack)].i = 1]
    /\ UNCHANGED <<run_vars, graph, inst, ctx>>

\* lines 318-320, 338-340: the generator of the next child (parent)
WalkRecurse ==
    /\ walk.stack # <<>> /\ WalkTop.i > 0
    /\ WalkTop.i <= Len(walk.edges[WalkTop.node])
    /\ walk' = [walk EXCEPT
                  !.stack =
                      Append([@ EXCEPT ![Len(@)].i = @ + 1],
                             [node |-> walk.edges[WalkTop.node][WalkTop.i],
                              i |-> 0])]
    /\ UNCHANGED <<run_vars, graph, inst, ctx>>

\* the loop over the list is over: the generator is exhausted
WalkReturn ==
    /\ walk.stack # <<>> /\ WalkTop.i > Len(walk.edges[WalkTop.node])
    /\ walk' = [walk EXCEPT !.stack = SubSeq(@, 1, Len(@) - 1)]
    /\ UNCHANGED <<run_vars, graph, inst, ctx>>

NextWalk ==
    \/ WalkStart
    \/ WalkSkip
    \/ WalkYield
    \/ WalkRecurse
    \/ WalkReturn

\* the caller keeps asking until the generator is exhausted
SpecWalk == InitWalk /\ [][NextWalk]_vars /\ WF_vars(NextWalk)

\* ------------------------------- Task.execute_run / Task.execute_teardown
\* One task instance of any class: with or without setup, run and debug
\* functions; its setup and run register callbacks, tear down to one, tear
\* down all, and return or raise.
InitTask ==
    /\ NoRun
    /\ graph = EmptyGraph
    /\ walk = NoWalk
    /\ ctx = NoContext
    /\ \E s \in BOOLEAN, r \in BOOLEAN, d \in SUBSET (1..MaxDebug),
          b \in SUBSET Fns :
       \E bd \in SUBSET d :
          inst = TaskInstance(s, r, d, b, bd)

Invoked(kind, ids) == [i \in DOMAIN ids |-> [k |-> kind, id |-> ids[i]]]

\* task.py 341-377: the except clauses, then the debug functions when the
\* class has some and the status is set
EndBody(t, exc) ==
    LET st == IF exc = NoExc THEN t.status ELSE RunHandler(exc)
        t1 == IF exc = NoExc THEN t
              ELSE [t EXCEPT !.status = st, !.error = exc,
                             !.error_text = exc, !.exc = exc,
                             !.where = t.pc]
    IN  IF st = "propagate" THEN [t EXCEPT !.pc = "raised", !.exc = exc]
        ELSE IF t1.DEBUG_FCNS # {} /\ t1.status # UNSET
        THEN [t1 EXCEPT !.pc = "debug", !.todo = t1.DEBUG_FCNS]
        ELSE [t1 EXCEPT !.pc = "ran"]

\* task.py 335-339
EnterRun(t) ==
    IF t.RUN_DEFINED
    THEN [t EXCEPT !.pc = "run", !.calls = Append(@, [k |-> "run", id |-> 0])]
    ELSE EndBody(t, NoExc)

\* setup or run returns (exc = NoExc) or raises exc
BodyEnds(t, exc) ==
    IF exc = NoExc /\ t.pc = "setup" THEN EnterRun(t) ELSE EndBody(t, exc)

\* task.py 327-333
InstExecuteRun ==
    /\ inst.pc = "new"
    /\ inst' = IF inst.SETUP_DEFINED
               THEN [inst EXCEPT !.pc = "setup",
                        !.calls = Append(@, [k |-> "setup", id |-> 0])]
               ELSE EnterRun(inst)
    /\ UNCHANGED <<run_vars, graph, walk, ctx>>

\* setup or run calls self.add_teardown(fcn)
InstAddTeardown ==
    /\ inst.pc \in {"setup", "run"}
    /\ inst.ops < MaxOps
    /\ Len(inst.teardown_stack) < MaxStack
    /\ \E fcn \in Fns :
         inst' = [inst EXCEPT
                    !.teardown_stack = add_teardown(@, fcn),
                    !.ops = @ + 1]
    /\ UNCHANGED <<run_vars, graph, walk, ctx>>

\* what a call on the teardown stack leaves in the instance
StackCall(t, op, fcn, r) ==
    [t EXCEPT !.teardown_stack = r.stack,
              !.calls = @ \o Invoked("callback", r.called),
              !.last = [op |-> op, fcn |-> fcn, before |-> t.teardown_stack,
                        stack |-> r.stack, called |-> r.called,
                        raised |-> r.raised]]

\* setup or run calls self.teardown_to_function(fcn) and handles what it
\* raises, or not
InstTeardownToFunction ==
    /\ inst.pc \in {"setup", "run"}
    /\ inst.ops < MaxOps
    /\ \E fcn \in Fns :
         LET r == teardown_to_function(inst.teardown_stack, fcn, inst.bad)
             t1 == [StackCall(inst, "teardown_to_function", fcn, r)
                        EXCEPT !.ops = @ + 1]
         IN  \E caught \in IF r.raised = NoExc THEN {TRUE} ELSE BOOLEAN :
                inst' = IF caught THEN t1 ELSE BodyEnds(t1, r.raised)
    /\ UNCHANGED <<run_vars, graph, walk, ctx>>

\* setup or run calls self.teardown() and handles what it raises, or not
InstTeardown ==
    /\ inst.pc \in {"setup", "run"}
    /\ inst.ops < MaxOps
    /\ LET r == teardown(inst.teardown_stack, inst.bad)
           t1 == [StackCall(inst, "teardown", 0, r) EXCEPT !.ops = @ + 1]
       IN  \E caught \in IF r.raised = NoExc THEN {TRUE} ELSE BOOLEAN :
              inst' = IF caught THEN t1 ELSE BodyEnds(t1, r.raised)
    /\ UNCHANGED <<run_vars, graph, walk, ctx>>

\* setup or run returns, or raises an exception of its own
InstBodyEnds ==
    /\ inst.pc \in {"setup", "run"}
    /\ \E exc \in {NoExc} \cup Exceptions : inst' = BodyEnds(inst, exc)
    /\ UNCHANGED <<run_vars, graph, walk, ctx>>

\* task.py 365-377: one round of the loop over DEBUG_FCNS, a set, inside
\* one try statement: what a debug function raises ends the loop
InstDebug ==
    /\ inst.pc = "debug"
    /\ \E d \in inst.todo :
         LET t1 == [inst EXCEPT
                      !.calls = Append(@, [k |-> "debug", id |-> d]),
                      !.todo = @ \ {d}]
         IN  inst' = IF d \in inst.bad_debug \/ t1.todo = {}
                     THEN [t1 EXCEPT !.pc = "ran"]
                     ELSE t1
    /\ UNCHANGED <<run_vars, graph, walk, ctx>>

\* an execute_teardown that keeps a status set by setup/run
TeardownStatus_KeepPrior(status, raised) ==
    IF status # UNSET THEN status
    ELSE IF raised THEN RUN_CATASTROPHIC ELSE RUN_SUCCESS

\* task.py 394-401: the status execute_teardown leaves, raised saying that
\* teardown() raised
TeardownStatus(status, raised) ==
    IF raised THEN RUN_CATASTROPHIC
    ELSE IF status = UNSET THEN RUN_SUCCESS ELSE status

\* Task.execute_teardown (task.py 381-406)
InstExecuteTeardown ==
    /\ inst.pc = "ran"
    /\ LET t0 == [inst EXCEPT !.prior = inst.status, !.pc = "torn"]
           r == teardown(inst.teardown_stack, inst.bad)
           t1 == IF inst.teardown_stack = <<>> THEN t0
                 ELSE StackCall(
                        [t0 EXCEPT !.calls =
                            Append(@, [k |-> "teardown", id |-> 0])],
                        "teardown", 0, r)
           raised == /\ inst.teardown_stack # <<>>
                     /\ r.raised # NoExc
                     /\ "Exception" \in ExcBases[r.raised]
           t2 == IF raised
                 THEN [t1 EXCEPT !.error = r.raised, !.error_text = r.raised]
                 ELSE t1
       IN  inst' = [t2 EXCEPT !.status = TeardownStatus(@, raised)]
    /\ UNCHANGED <<run_vars, graph, walk, ctx>>

NextTask ==
    \/ InstExecuteRun
    \/ InstAddTeardown
    \/ InstTeardownToFunction
    \/ InstTeardown
    \/ InstBodyEnds
    \/ InstDebug
    \/ InstExecuteTeardown

SpecTask == InitTask /\ [][NextTask]_vars

\* ------------------------------------------- subcontexts of one context
InitContext ==
    /\ NoRun
    /\ graph = EmptyGraph
    /\ walk = NoWalk
    /\ inst = NoTask
    /\ ctx = NewContext

\* context.add_emitter(e) for an emitter not yet attached
CtxAddEmitter ==
    /\ \E e \in DOMAIN ctx.ems \ SeqToSet(ctx.emitters) :
         ctx' = add_emitter(ctx, e)
    /\ UNCHANGED <<run_vars, graph, walk, inst>>

\* a with statement on context.subcontext(message, log_level) is entered
CtxOpen ==
    /\ Len(ctx.handles) < MaxDepth
    /\ \E message \in {"a", "b"}, log_level \in {"procedure", "info"} :
         ctx' = subcontext(ctx, message, log_level)
    /\ UNCHANGED <<run_vars, graph, walk, inst>>

\* the innermost with statement is left, by its end or by an exception
CtxClose ==
    /\ ctx.handles # <<>>
    /\ ctx' = SubcontextClose(ctx)
    /\ UNCHANGED <<run_vars, graph, walk, inst>>

NextContext ==
    \/ CtxAddEmitter
    \/ CtxOpen
    \/ CtxClose

SpecContext == InitContext /\ [][NextContext]_vars

\* ------------------------------------ a graph that is built, run and kept
\* the graph after the add_task calls of a list of <<class, allow_duplicate>>
\* pairs, each on a task without arguments
RECURSIVE BuildFrom(_, _)
BuildFrom(g, calls) ==
    IF calls = <<>> THEN g
    ELSE LET cls == Head(calls)[1]
             r == add_task(g, cls, <<>>, Head(calls)[2])
         IN  BuildFrom([r.g EXCEPT
                          !.adds = @ + 1,
                          !.allow_duplicate = @ \/ Head(calls)[2],
                          !.call = [cls |-> cls, args |-> <<>>],
                          !.ret = r.node],
                       Tail(calls))

BuiltGraphs ==
    {BuildFrom(EmptyGraph, calls) :
        calls \in UNION {[1..k -> (DOMAIN TaskClasses) \X BOOLEAN] :
                            k \in 1..MaxAdds}}

\* the children lists of the nodes of graph g
ChildLists(g) == [n \in DOMAIN g.nodes |-> g.nodes[n].children]

\* a reset that does not look at visited
RECURSIVE reset_recursive_Revisit(_, _)
reset_recursive_Revisit(s, n) ==
    LET RECURSIVE Each(_, _)
        Each(t, cs) ==
            IF cs = <<>> THEN t
            ELSE Each(reset_recursive_Revisit(t, Head(cs)), Tail(cs))
    IN  Each([s EXCEPT !.visited = @ \cup {n},
                       !.node[n] = FreshNode,
                       !.task[n] = clone(@),
                       !.resets[n] = @ + 1],
             children[n])

\* RunnerNode.reset(recursive=True, visited) on s = [node, task, visited,
\* resets], visited being the one set all the calls share
RECURSIVE reset_recursive(_, _)
reset_recursive(s, n) ==
    LET RECURSIVE Each(_, _)
        Each(t, cs) ==
            IF cs = <<>> THEN t
            ELSE Each(reset_recursive(t, Head(cs)), Tail(cs))
    IN  IF n \in s.visited THEN s
        ELSE Each([s EXCEPT !.visited = @ \cup {n},
                            !.node[n] = FreshNode,
                            !.task[n] = clone(@),
                            !.resets[n] = @ + 1],
                  children[n])

\* RunnerGraph.clean_graph lines 141-149: the loop over the nodes to remove
RECURSIVE RemoveEach(_, _, _)
RemoveEach(g, remove_nodes, remove_set) ==
    IF remove_nodes = <<>> THEN g
    ELSE LET n == Head(remove_nodes)
             key == generate_key(g.nodes[n].cls, g.nodes[n].args)
             kept(l) == SelectSeq(l, LAMBDA c : c \notin remove_set)
         IN  RemoveEach(
                 [g EXCEPT
                    !.all_nodes = {e \in @ : e[1] # key},
                    !.nodes = [p \in DOMAIN g.nodes |->
                                 IF p \in SeqToSet(g.nodes[n].parents)
                                 THEN [g.nodes[p] EXCEPT
                                         !.children = kept(@)]
                                 ELSE g.nodes[p]]],
                 Tail(remove_nodes), remove_set)

\* the list in the opposite order
RECURSIVE Reversed(_)
Reversed(l) == IF l = <<>> THEN <<>> ELSE Append(Reversed(Tail(l)), Head(l))

\* RunnerGraph.clean_graph on graph g with the node flags nd: the graph
\* after the call and the list it returns
clean_graph(g, nd) ==
    IF g.root = 0 THEN [g |-> g, ret |-> <<>>]
    ELSE LET remove_nodes ==
                 SelectSeq(Walk(ChildLists(g), <<g.root>>, <<>>),
                           LAMBDA n : nd[n].complete)
             remove_set == SeqToSet(remove_nodes)
             g1 == RemoveEach(g, Reversed(remove_nodes), remove_set)
         IN  [g |-> [g1 EXCEPT !.root = IF @ \in remove_set THEN 0 ELSE @],
              ret |-> remove_nodes]

\* A graph built from up to MaxAdds tasks, run once in the order of the
\* children lists, and then reset or cleaned.
InitKept ==
    /\ graph \in BuiltGraphs
    /\ parents = [n \in DOMAIN graph.nodes |-> graph.nodes[n].parents]
    /\ children = ChildLists(graph)
    /\ opts = [random_order |-> FALSE, failfast |-> FALSE,
               rerun_failures |-> NoRerun, emitters |-> "none"]
    /\ tasks_raise = TRUE
    /\ walk = NoWalk
    /\ inst = NoTask
    /\ ctx = NoContext
    /\ node = [n \in Nodes |-> FreshNode]
    /\ task = [n \in Nodes |-> NewTask]
    /\ path = {}
    /\ stack = <<Frame("run", Root, "start")>>
    /\ failure_iters = 0
    /\ success = TRUE
    /\ stopped = "none"
    /\ ran_pass = {}
    /\ todo_pass = {}
    /\ doomed = {}
    /\ hist = NoHist

\* graph.reset() before or after the run (lines 156-161)
GraphReset ==
    /\ At("run", "start") \/ At("run", "done")
    /\ LET s == reset_recursive([node |-> node, task |-> task, visited |-> {},
                                 resets |-> [n \in Nodes |-> 0]],
                                graph.root)
       IN  /\ node' = s.node
           /\ task' = s.task
           /\ hist' = [hist EXCEPT !.resets = s.resets]
    /\ stack' = Goto([Top EXCEPT !.pc = "reset"])
    /\ UNCHANGED <<inputs, path, failure_iters, success, stopped, ran_pass,
                   todo_pass, doomed>>

\* graph.clean_graph() before or after the run
CleanGraph ==
    /\ At("run", "start") \/ At("run", "done")
    /\ LET r == clean_graph(graph, node) IN
       /\ graph' = r.g
       /\ children' = ChildLists(r.g)
       /\ hist' = [hist EXCEPT !.removed = r.ret]
    /\ stack' = Goto([Top EXCEPT !.pc = "cleaned"])
    /\ UNCHANGED <<parents, opts, tasks_raise, walk, inst, ctx, node, task,
                   path, failure_iters, success, stopped, ran_pass, todo_pass,
                   doomed>>

NextKept ==
    \/ Next
    \/ GraphReset
    \/ CleanGraph

SpecKept == InitKept /\ [][NextKept]_vars

\* ================================================================== claims
PassEnd == At("run", "after_teardown_all") /\ ~Top.handler
Returned == At("run", "done")
TaskBegins == At("execute_run", "run_task")
TeardownBegins == At("execute_teardown", "start")
OwnFailure(n) == task[n].own /\ task[n].status \in {RUN_FAIL, RUN_ERROR}

\* C1: when the task of a node begins its setup/run, every parent of the
\* node has finished its own setup/run in this pass and is still standing
\* (run_complete, not torn down).
C1_ParentsStanding ==
    TaskBegins =>
        \A p \in Parents(Top.node) :
            node[p].run_complete /\ p \in ran_pass /\ ~task[p].torn

\* a task begins whose parents are several, one of them pulled in by it
C1_Witness ==
    /\ TaskBegins
    /\ Cardinality(Parents(Top.node)) >= 2
    /\ \E p \in Parents(Top.node) : p \notin path /\ p # Root

C3_Failfast ==
    (opts.failfast /\ \E n \in Nodes : OwnFailure(n)) =>
        /\ ~TaskBegins
        /\ Returned => (stopped = "FinishRun" /\ ~success)

\* C4: when update_status has handled a node whose own setup/run ended with
\* a status, every descendant is complete and holds the node's status, error
\* and error_text; and no node so marked in a pass has its setup/run or its
\* teardown begun in that pass.
C4_FailurePropagates ==
    /\ (At("execute_run", "return") /\ task[Top.node].own) =>
          \A d \in Descendants(Top.node) :
              /\ node[d].complete
              /\ task[d].status = task[Top.node].status
              /\ task[d].error = task[Top.node].error
              /\ task[d].error_text = task[Top.node].error_text
    /\ (TaskBegins \/ TeardownBegins) => Top.node \notin doomed

\* a failed node with a grandchild has been handled
C4_Witness ==
    /\ At("execute_run", "return")
    /\ task[Top.node].own
    /\ Descendants(Top.node) \ Children(Top.node) # {}

FailedAbove(n) == \E a \in Ancestors(n) : task[a].own

\* C5: without failfast and without a CATASTROPHIC teardown, at the end of a
\* pass every node that was to be run in it has had its setup/run, unless an
\* ancestor of it failed or skipped.
C5_SiblingsStillRun ==
    (PassEnd /\ ~opts.failfast /\ stopped = "none") =>
        \A n \in todo_pass : n \in ran_pass \/ FailedAbove(n)

\* the diamond: b failed, its sibling c ran, their child d inherited FAIL
\* without running, the result is not successful
C5_Witness ==
    /\ Returned /\ stopped = "none" /\ ~opts.failfast /\ ~success
    /\ \E b, c, d \in Nodes :
          /\ b # c /\ {b, c} \subseteq Parents(d)
          /\ task[b].own /\ task[b].status = RUN_FAIL
          /\ c \in ran_pass /\ task[c].status = RUN_SUCCESS
          /\ d \notin ran_pass /\ task[d].status = RUN_FAIL

\* C6: when a pass ends or run() returns, without a control exception, every
\* task whose own setup/run ended SKIP, FAIL or ERROR has had execute_teardown
\* invoked on it.
C6_FailedTornDown ==
    ((PassEnd \/ Returned) /\ stopped = "none") =>
        \A n \in Nodes : task[n].own => task[n].torn

\* a failed node that was pulled in as a parent is being torn down by
\* teardown_outstanding
C6_Witness ==
    /\ TeardownBegins
    /\ task[Top.node].own
    /\ stack[Len(stack) - 1].fn = "teardown_outstanding"

\* C7: once a teardown raised, StopRun is in run(): nothing but run() is on the
\* stack, on its way out, the result is false, and the nodes still standing
\* have not had their teardown executed.
C7_Catastrophic ==
    stopped = "StopRun" =>
        /\ Len(stack) = 1
        /\ stack[1].pc \in {"finalize", "done"}
        /\ ~success
        /\ \A n \in Nodes : node[n].run_complete => ~task[n].torn

\* run() returned after StopRun and left a standing ancestor that finish_node
\* marked complete
C7_Witness ==
    /\ Returned /\ stopped = "StopRun"
    /\ \E n \in Nodes : node[n].run_complete /\ node[n].complete /\ n # Root

\* C8: a set status of a task instance only changes to CATASTROPHIC, in the
\* teardown of that task (a status going back to unset is the node's new
\* clone).
C8_StatusOnce ==
    [][\A n \in Nodes :
          task[n].status # UNSET =>
              \/ task'[n].status \in {task[n].status, UNSET}
              \/ /\ task'[n].status = RUN_CATASTROPHIC
                 /\ TeardownBegins /\ Top.node = n]_vars

\* C9: when run() returns without FinishRun or StopRun, every node that
\* reached run_complete in the last pass is complete and not standing.
C9_NoneLeftStanding ==
    (Returned /\ stopped = "none") =>
        \A n \in ran_pass : node[n].complete /\ ~node[n].run_complete

\* run() returned from a pass that ran the whole of a graph of four nodes
C9_Witness ==
    /\ Returned /\ stopped = "none"
    /\ Cardinality(ran_pass) >= 4

\* C10: when teardown_outstanding(S, wrt) returns, its working set is empty,
\* it tore down no node of wrt.reversed(), and it tore down every node of S
\* that is not in wrt.reversed().
C10_TeardownOutstanding ==
    [][(At("teardown_outstanding", "loop") /\ Len(stack') < Len(stack)) =>
          /\ Top.ws = {}
          /\ Top.torn \cap SeqToSet(reversed(Top.wrt)) = {}
          /\ Top.given \ SeqToSet(reversed(Top.wrt)) \subseteq Top.torn]_vars

\* a call about to return that tore a node down and spared another
C10_Witness ==
    /\ At("teardown_outstanding", "loop")
    /\ Top.ws = {}
    /\ Top.torn # {}
    /\ Top.given \cap SeqToSet(reversed(Top.wrt)) # {}

\* a child's task begins, called by execute() from save_the_children
Scheduled ==
    /\ TaskBegins
    /\ Top.node # Root
    /\ stack[Len(stack) - 1].fn = "execute"

\* C11: when the task of a child scheduled by save_the_children begins its
\* setup, every standing node is an ancestor of the child.
C11_OnlyAncestorsStand ==
    Scheduled =>
        \A n \in Nodes : node[n].run_complete => n \in Ancestors(Top.node)

KeyOf(g, n) == generate_key(g.nodes[n].cls, g.nodes[n].args)
CallKey(g) == generate_key(g.call.cls, g.call.args)

\* C12: as long as every add_task call had allow_duplicate = false, no two
\* nodes of the graph have the same key; and an add_task on a task whose key
\* is registered returns the registered node and leaves the nodes and their
\* edges as they were.
C12_Deduplication ==
    /\ [](~graph.allow_duplicate =>
             \A m, n \in DOMAIN graph.nodes :
                 KeyOf(graph, m) = KeyOf(graph, n) => m = n)
    /\ [][Registered(graph, CallKey(graph')) =>
             /\ graph'.ret = NodeOf(graph, CallKey(graph'))
             /\ graph'.nodes = graph.nodes
             /\ graph'.all_nodes = graph.all_nodes]_vars

\* D(x, y) was added twice: one node D under the shared parents B(x), C(y)
C12_Witness ==
    /\ graph.adds = 2 /\ ~graph.allow_duplicate
    /\ graph.call = [cls |-> 4, args |-> <<<<"x", 1>>, <<"y", 2>>>>]
    /\ Len(graph.nodes) = 4
    /\ graph.ret = 4

\* C13: two nodes of a graph built without duplicates never have the same
\* class and the same set of (name, value) arguments.
C13_IdentityByArgSet ==
    ~graph.allow_duplicate =>
        \A m, n \in DOMAIN graph.nodes :
            (/\ graph.nodes[m].cls = graph.nodes[n].cls
             /\ SeqToSet(graph.nodes[m].args) = SeqToSet(graph.nodes[n].args))
                => m = n

\* the nodes reachable from the nodes of S through the lists of the iteration
RECURSIVE ReachFrom(_)
ReachFrom(S) ==
    LET T == S \cup UNION {SeqToSet(walk.edges[n]) : n \in S} IN
    IF T = S THEN S ELSE ReachFrom(T)

NoRepeat(q) == \A i, j \in DOMAIN q : i # j => q[i] # q[j]
WalkDone == walk.stack = <<>> /\ walk.yielded # <<>>

\* C14: forwards() and reversed() yield the node itself first and no node
\* twice; when exhausted they have yielded exactly the nodes reachable from
\* the node, in the order of Walk; and on any linked structure, cycles and
\* shared nodes included, they are exhausted in the end.
C14_IterationOnceEach ==
    /\ [](/\ NoRepeat(walk.yielded)
          /\ walk.yielded # <<>> => walk.yielded[1] = walk.start)
    /\ [](WalkDone =>
             /\ SeqToSet(walk.yielded) = ReachFrom({walk.start})
             /\ walk.yielded = Walk(walk.edges, <<walk.start>>, <<>>))
    /\ <>WalkDone

\* an exhausted iteration of every node of a structure where the last node
\* yielded links back to the first and a node is listed twice by another
C14_Witness ==
    /\ WalkDone
    /\ Len(walk.yielded) = WalkNodes
    /\ walk.start \in SeqToSet(walk.edges[walk.yielded[WalkNodes]])
    /\ \E n \in 1..WalkNodes :
          /\ Len(walk.edges[n]) = 2
          /\ walk.edges[n][1] = walk.edges[n][2]

\* the setup/run of a task other than the base Task has just been executed
SetupBegan == At("execute_run", "update_status") /\ ~IsBaseTask(Top.node)

\* the places in n.parents of the parents whose run_attrs hold the name a
Publishers(n, a) ==
    {i \in DOMAIN parents[n] : a \in DOMAIN node[parents[n][i]].run_attrs}
LastPublisher(n, a) ==
    parents[n][CHOOSE i \in Publishers(n, a) :
                  \A j \in Publishers(n, a) : j <= i]

\* C15: when the setup of the task of a node began, the task held, for every
\* name in the run_attrs of a parent, the value of the last parent in
\* parents order that holds the name; and the run_attrs of each parent are
\* what its task held at the start of its setup overlaid with the values
\* the task holds for its PRESENTED_ATTRS.
C15_AttributeInheritance ==
    SetupBegan =>
        LET n == Top.node IN
        /\ \A p \in Parents(n) : \A a \in DOMAIN node[p].run_attrs :
              /\ a \in DOMAIN task[n].held
              /\ task[n].held[a] = node[LastPublisher(n, a)].run_attrs[a]
        /\ \A p \in Parents(n) \ {Root} :
              node[p].run_attrs =
                  patch_dict(task[p].held,
                             [a \in PRESENTED_ATTRS(p) |->
                                GetAttr(task[p], a)])

\* a task began that took a name from the later of two parents that hold
\* different values for it, and another name from its first parent alone
C15_Witness ==
    /\ SetupBegan
    /\ Len(parents[Top.node]) >= 2
    /\ \E a, b \in PRESENTED_ATTRS(Top.node) :
          /\ Cardinality(Publishers(Top.node, a)) >= 2
          /\ \E i \in Publishers(Top.node, a) :
                node[parents[Top.node][i]].run_attrs[a] # task[Top.node].held[a]
          /\ Publishers(Top.node, b) = {1}

\* the reruns the options allow (line 165: opts.rerun_failures or 0)
Reruns == IF opts.rerun_failures = NoRerun THEN 0 ELSE opts.rerun_failures

\* C16: run() starts at most rerun_failures + 1 passes, that is calls of
\* root.execute; one pass when rerun_failures is unset or 0.
C16_PassesBounded == hist.passes <= Reruns + 1

\* an ancestor of n had its setup/run in this pass and ended it with a status
FailedThisPass(n) == \E a \in Ancestors(n) : a \in ran_pass /\ task[a].own

\* C17: at the end of the pass that follows a rerun reset, every node that
\* was reset has been executed again, unless an ancestor of it failed or
\* skipped in that pass.
C17_ResetNodesReplayed ==
    (PassEnd /\ hist.passes = 2 /\ stopped = "none") =>
        \A n \in todo_pass : n \in ran_pass \/ FailedThisPass(n)

AllOk == \A n \in Nodes : task[n].status \in {RUN_SKIP, RUN_SUCCESS}

\* C18: run() returns true if and only if it ended without FinishRun or
\* StopRun and every node has status SKIP or SUCCESS after the last pass.
C18_ResultIffAllOk ==
    Returned => (success <=> (stopped = "none" /\ AllOk))

\* C19: when run() has ended on a graph with emitters, each emitter got
\* finalize() exactly once.
C19_EmittersFinalized ==
    (Returned /\ opts.emitters # "none") => hist.finalized = 1

\* C20: in every execute_teardown of a task other than the base Task, each
\* emitter got start_task once and end_task exactly once.
C20_TeardownNotified ==
    (hist.teardown # 0 /\ ~IsBaseTask(hist.teardown)
        /\ opts.emitters # "none") =>
            hist.start = 1 /\ hist.end = 1

\* the status the claims expect for the exception that left setup/run
ExpectedStatus(exc) ==
    CASE exc = NoExc -> UNSET
      [] exc = "TaskSkip" -> RUN_SKIP
      [] exc = "AssertionError" -> RUN_FAIL
      [] OTHER -> RUN_ERROR

HasCall(kind) == \E i \in DOMAIN inst.calls : inst.calls[i].k = kind

C22_TeardownStatus ==
    inst.pc = "torn" =>
        /\ inst.status # UNSET
        /\ inst.status =
              IF HasCall("teardown") /\ inst.last.raised # NoExc
              THEN RUN_CATASTROPHIC
              ELSE IF inst.prior = UNSET THEN RUN_SUCCESS ELSE inst.prior

C22_Witness ==
    /\ inst.pc = "torn"
    /\ inst.prior = RUN_FAIL
    /\ inst.status = RUN_CATASTROPHIC

Reverse(q) == [i \in 1..Len(q) |-> q[Len(q) + 1 - i]]

\* C23: a teardown() in which no callback raises has invoked the registered
\* callbacks in reverse order of registration, each registration once, and
\* left the stack empty; on an empty stack it has invoked nothing.
C23_TeardownLifo ==
    (inst.last.op = "teardown" /\ inst.last.raised = NoExc) =>
        /\ inst.last.called = Reverse(inst.last.before)
        /\ inst.last.stack = <<>>

C23_Witness ==
    /\ inst.last.op = "teardown"
    /\ inst.last.raised = NoExc
    /\ Len(inst.last.before) = MaxStack
    /\ inst.last.before[1] # inst.last.before[2]
    /\ inst.last.before[1] = inst.last.before[MaxStack]

\* the place of the last registration of fcn on the stack q, 0 if none
LastOf(q, fcn) ==
    IF \E i \in DOMAIN q : q[i] = fcn
    THEN CHOOSE i \in DOMAIN q :
            q[i] = fcn /\ \A j \in DOMAIN q : q[j] = fcn => j <= i
    ELSE 0

C25_DebugFcnsAllRun ==
    (inst.pc = "ran" /\ inst.status # UNSET) =>
        \A d \in inst.DEBUG_FCNS :
            Cardinality({i \in DOMAIN inst.calls :
                inst.calls[i] = [k |-> "debug", id |-> d]}) = 1

\* C26: in a context whose emitters were all attached before any subcontext
\* was opened, every emitter's context_level is the number of subcontexts
\* open, and every emitter got the message of the last subcontext opened.
C26_ContextLevel ==
    SeqToSet(ctx.emitters) \subseteq ctx.early =>
        \A e \in SeqToSet(ctx.emitters) :
            /\ ctx.ems[e].context_level = Len(ctx.handles)
            /\ ctx.opened => ctx.ems[e].got = ctx.sent

C26_Witness ==
    /\ Len(ctx.emitters) = MaxEmitters
    /\ SeqToSet(ctx.emitters) \subseteq ctx.early
    /\ ctx.closed
    /\ Len(ctx.handles) = 1

\* C27: Emitter.start_task registers the task and does not raise: a run
\* with the emitters of the package is not ended by an AttributeError.
C27_StartTaskRegisters ==
    opts.emitters = "stock" => stopped # "AttributeError"

\* C28: a node that is complete stays complete, unless the rerun of run()
\* resets it, and the setup/run of its task is not invoked.
C28_CompleteIsTerminal ==
    [][\A n \in Nodes : node[n].complete =>
          /\ node'[n].complete \/ At("run", "after_teardown_all")
          /\ ~(At("execute_run", "run_task") /\ Top.node = n)]_vars

C28_Witness ==
    /\ At("execute_run", "run_task")
    /\ ~IsBaseTask(Top.node)
    /\ \E n \in Nodes \ {Top.node} :
          /\ node[n].complete
          /\ task[n].status = RUN_SUCCESS

\* C30: when save_the_children returns with children_complete set, every
\* child of the node is complete.
C30_NoChildLeftOver ==
    [][(/\ stack # <<>>
        /\ Top.fn = "save_the_children"
        /\ Len(stack') < Len(stack)
        /\ node'[Top.node].children_complete) =>
            \A c \in Children(Top.node) : node'[c].complete]_vars

Occurrences(q, x) == Cardinality({i \in DOMAIN q : q[i] = x})

\* C29: in a graph built by add_task calls, the parents of a node are nodes
\* of the classes of its task's PARENTS, in that order, each with the
\* node's args restricted to the parent class's ARGUMENTS; every node is
\* once in the children of each of its parents, and every child of a node
\* has the node among its parents.
C29_ParentsAndEdges ==
    \A n \in DOMAIN graph.nodes :
        LET N == graph.nodes[n] IN
        /\ Len(N.parents) = Len(PARENTS(N.cls))
        /\ \A i \in DOMAIN N.parents :
              LET P == graph.nodes[N.parents[i]] IN
              /\ P.cls = PARENTS(N.cls)[i]
              /\ P.args = SelectSeq(N.args,
                                    LAMBDA a : a[1] \in ARGUMENTS(P.cls))
              /\ Occurrences(P.children, n) = 1
        /\ \A i \in DOMAIN N.children :
              n \in SeqToSet(graph.nodes[N.children[i]].parents)

\* D(y, x) and D(x) were added: B(x) has both as children, C(y) and C()
\* one each
C29_Witness ==
    \E m, n \in DOMAIN graph.nodes :
        /\ graph.nodes[m].cls = 4 /\ graph.nodes[n].cls = 4
        /\ Len(graph.nodes[m].args) = 2 /\ Len(graph.nodes[n].args) = 1
        /\ graph.nodes[m].parents[1] = graph.nodes[n].parents[1]
        /\ graph.nodes[m].parents[2] # graph.nodes[n].parents[2]

\* the nodes met walking up the parent edges from the nodes of S, going on
\* from a node only if it is in open
RECURSIVE UpThrough(_, _)
UpThrough(S, open) ==
    LET T == S \cup UNION {Parents(v) : v \in S \cap open} IN
    IF T = S THEN S ELSE UpThrough(T, open)

\* execute_run of the node on top of the stack is in its loop over the
\* parents, which it leaves by a call of find_outstanding_nodes(path)
FindsOutstanding ==
    At("execute_run", "parents") \/ At("execute_run", "after_parent")

Standing == {n \in Nodes : node[n].run_complete}

\* C31 as stated: find_outstanding_nodes(path) is the set of all the
\* run_complete ancestors met walking up without passing through a node of
\* path.
C31_AllStandingAncestors ==
    FindsOutstanding =>
        find_outstanding_nodes(Top.node, path) =
            (UpThrough(Parents(Top.node), Nodes \ path) \ path) \cap Standing

\* C31 amended: find_outstanding_nodes(path) is the set of the run_complete
\* ancestors met walking up without passing through a node of path or
\* through a run_complete node: on each way up, the first one only.  None
\* is in path, none is the node itself.
C31_NearestStandingAncestors ==
    FindsOutstanding =>
        LET found == find_outstanding_nodes(Top.node, path) IN
        /\ found = (UpThrough(Parents(Top.node),
                              (Nodes \ path) \ Standing) \ path)
                       \cap Standing
        /\ found \cap path = {}
        /\ Top.node \notin found

\* a standing parent outside path whose own parent stands outside path too
C31_Witness ==
    /\ FindsOutstanding
    /\ \E p \in Parents(Top.node) \ path : \E g \in Parents(p) \ path :
          /\ node[p].run_complete
          /\ node[g].run_complete
          /\ p \in find_outstanding_nodes(Top.node, path)
          /\ g \notin find_outstanding_nodes(Top.node, path)

\* C32: the finish_node that ends an execute_teardown makes the node
\* complete if all its children are complete, and otherwise resets it: all
\* flags false, no run_attrs, a new task without status.  A node that is
\* not standing when its task's setup/run is invoked has such a new task.
C32_FinishNode ==
    /\ [][At("execute_teardown", "start") =>
            LET n == Top.node IN
            IF \A c \in Children(n) : node'[c].complete
            THEN node'[n].complete /\ ~node'[n].run_complete
            ELSE node'[n] = FreshNode /\ task'[n] = NewTask]_vars
    /\ []((At("execute_run", "run_task") /\ ~node[Top.node].run_complete)
            => /\ task[Top.node] = NewTask
               /\ ~node[Top.node].complete
               /\ ~node[Top.node].children_complete)

\* a node that was run and torn down in this pass is about to be set up
\* again
C32_Witness ==
    /\ At("execute_run", "run_task")
    /\ ~IsBaseTask(Top.node)
    /\ ~node[Top.node].run_complete
    /\ Top.node \in ran_pass

\* the nodes of graph g reachable from the nodes of S through children
RECURSIVE DownFrom(_, _)
DownFrom(g, S) ==
    LET T == S \cup UNION {SeqToSet(g.nodes[n].children) : n \in S} IN
    IF T = S THEN S ELSE DownFrom(g, T)

\* C35: in a graph built from a non-empty list of tasks (add_task calls
\* with the default allow_duplicate), root is a node without parents and
\* every node registered in all_nodes is reachable from root through children.
C35_AllUnderRoot ==
    (graph.adds > 0 /\ ~graph.allow_duplicate) =>
        /\ graph.root \in DOMAIN graph.nodes
        /\ graph.nodes[graph.root].parents = <<>>
        /\ \A e \in graph.all_nodes : e[2] \in DownFrom(graph, {graph.root})

\* C33: graph.reset() leaves every node reachable from root fresh (flags
\* false, run_attrs empty) with a new task of its class and args (status
\* unset, empty teardown stack), resets each of them exactly once and no
\* other node, and leaves the graph, the parents and the children as they
\* were.
C33_ResetAll ==
    [][At("run", "reset")' =>
          /\ \A n \in Nodes :
                IF n \in SeqToSet(forwards(graph.root))
                THEN /\ node'[n] = FreshNode
                     /\ task'[n] = NewTask
                     /\ hist'.resets[n] = 1
                ELSE /\ node'[n] = node[n]
                     /\ task'[n] = task[n]
                     /\ hist'.resets[n] = 0
          /\ graph' = graph
          /\ parents' = parents
          /\ children' = children]_vars

\* a completed run was reset: a node with two parents, complete before, is
\* fresh and was reset once
C33_Witness ==
    /\ At("run", "reset")
    /\ hist.passes > 0
    /\ \E n \in Nodes : /\ Cardinality(Parents(n)) = 2
                         /\ hist.resets[n] = 1
                         /\ task[n] = NewTask
    /\ \A n \in Nodes : hist.resets[n] = 1

\* the nodes registered in all_nodes of graph g
RegisteredNodes(g) == {e[2] : e \in g.all_nodes}

\* C34: clean_graph() returns exactly the complete nodes reachable from
\* root, each once; none of them is left in all_nodes or in the children
\* of a parent; root is cleared exactly if it was complete; and every
\* incomplete node stays registered if it was and stays in the children of
\* each of its parents.
Cleaned ==
    LET reach == SeqToSet(forwards(graph.root))
        done == {n \in reach : node[n].complete}
        removed == hist'.removed
    IN  /\ SeqToSet(removed) = done
        /\ Len(removed) = Cardinality(done)
        /\ \A n \in done :
              /\ n \notin RegisteredNodes(graph')
              /\ \A p \in Parents(n) :
                    n \notin SeqToSet(graph'.nodes[p].children)
        /\ graph'.root = IF graph.root \in done THEN 0 ELSE graph.root
        /\ \A n \in Nodes :
              ~node[n].complete =>
                  /\ n \in RegisteredNodes(graph)
                        => n \in RegisteredNodes(graph')
                  /\ \A p \in Parents(n) :
                        n \in SeqToSet(graph'.nodes[p].children)

C34_CleanGraph == [][At("run", "cleaned")' => Cleaned]_vars

C37_TeardownOnlyStanding ==
    TeardownBegins =>
        /\ node[Top.node].run_complete
        /\ ~task[Top.node].torn

\* C38: the setup/run of a task is never invoked on a standing node
\* (run_complete), nor on a task instance whose setup/run already ended
\* with a status.
C38_RunOncePerInstance ==
    TaskBegins =>
        /\ ~node[Top.node].run_complete
        /\ ~task[Top.node].own

\* no node operation is in progress: a task phase is about to begin, or
\* run() is between two passes (before and after the rerun reset) or has
\* returned
Quiescent ==
    \/ TaskBegins
    \/ TeardownBegins
    \/ PassEnd
    \/ At("run", "loop")
    \/ Returned

\* C39: at every quiescent point every child of a complete node is complete.
C39_CompleteDownward ==
    Quiescent =>
        \A n \in Nodes :
            node[n].complete => \A c \in Children(n) : node[c].complete

\* C40: when run() has returned without FinishRun or StopRun, every node
\* reachable from root is complete and its task has a status.
C40_AllExecuted ==
    (Returned /\ stopped = "none") =>
        \A n \in SeqToSet(forwards(Root)) :
            /\ node[n].complete
            /\ task[n].status \in TaskStatus

\* run() returned normally from a graph of four nodes in which one task
\* failed and another was skipped
C40_Witness ==
    /\ Returned /\ stopped = "none"
    /\ Len(parents) = 4
    /\ \E m, n \in Nodes : /\ task[m].status = RUN_FAIL
                            /\ task[n].status = RUN_SKIP
                            /\ task[n].own
====
